---- MODULE Spec2Model ----
(***************************************************************************)
(* Scoring-and-allocation pipeline of lt_investments: the scorers, the      *)
(* configuration validation, the portfolio allocator, the monthly backtest *)
(* engine with its DCA comparison, and the alert generator with its        *)
(* schedule.  Amounts, scores and percentages are exact rationals          *)
(* <<num, den>>.                                                           *)
(***************************************************************************)
EXTENDS Integers, Sequences, FiniteSets, TLC

VARIABLES
    config,            \* configuration dictionary handed to the constructors
    scores_df,         \* frame passed to the last calculate_allocations call
    allocations_df,    \* outcome of the last calculate_allocations call
    engine_scorer,     \* BacktestEngine.scorer (class name)
    alert_scorer,      \* InvestmentAlertGenerator.scorer (class name)
    ticker_data,       \* instrument index -> price series
    pc,                \* position of the running operation
    current_date,      \* run_monthly_backtest: current_date of the date loop
    backtest_end,      \* run_monthly_backtest: backtest_end
    monthly_dates,     \* run_monthly_backtest: monthly_dates
    month_idx,         \* run_monthly_backtest: index of the next month_date
    holdings,          \* run_monthly_backtest: holdings (key -> shares, avg_price)
    total_invested,    \* run_monthly_backtest: total_invested
    backtest_results,  \* run_monthly_backtest: backtest_results (events)
    last_step,         \* what the last processed month did
    alerts,            \* outcome of the last generate_alerts call
    score_result,      \* outcome of the last score_ticker call
    load_result,       \* outcome of the last load_config call
    dca,               \* _simulate_dca_backtest: dca_holdings, total_dca_invested
    schedule,          \* get_alert_schedule_dates: its arguments and locals
    step,              \* run_monthly_backtest: locals of the last month iteration
    metrics            \* outcome of the last calculate_performance_metrics call

vars == <<config, scores_df, allocations_df, engine_scorer, alert_scorer,
          ticker_data, pc, current_date, backtest_end, monthly_dates,
          month_idx, holdings, total_invested, backtest_results, last_step,
          alerts, score_result, load_result, dca, schedule, step, metrics>>

-----------------------------------------------------------------------------
(* Bounds *)

\* rows of a frame handed to calculate_allocations
MaxRows == 3
\* monthly dates generated by one backtest run
MaxMonths == 3
\* instruments in ticker_data
MaxTickers == 3
\* purchase rounds applied to one holdings table
MaxPurchases == 2

-----------------------------------------------------------------------------
(* Exact rational arithmetic *)

Abs(x) == IF x < 0 THEN -x ELSE x

RECURSIVE GCD(_, _)
GCD(a, b) == IF b = 0 THEN a ELSE GCD(b, a % b)

Norm(n, d) ==
    LET g == GCD(Abs(n), d)
    IN  IF n = 0 THEN <<0, 1>> ELSE <<n \div g, d \div g>>

R(n, d) == Norm(n, d)
Zero == <<0, 1>>
One == <<1, 1>>

LCM(a, b) == (a \div GCD(a, b)) * b

RAdd(a, b) ==
    LET l == LCM(a[2], b[2])
    IN  Norm(a[1] * (l \div a[2]) + b[1] * (l \div b[2]), l)
RMul(a, b) ==
    LET g1 == GCD(Abs(a[1]), b[2])
        g2 == GCD(Abs(b[1]), a[2])
    IN  IF a[1] = 0 \/ b[1] = 0 THEN <<0, 1>>
        ELSE <<(a[1] \div g1) * (b[1] \div g2), (a[2] \div g2) * (b[2] \div g1)>>
RDiv(a, b) == IF b[1] > 0 THEN RMul(a, <<b[2], b[1]>>)
                          ELSE RMul(a, <<-b[2], -b[1]>>)
RLt(a, b) ==
    LET l == LCM(a[2], b[2])
    IN  a[1] * (l \div a[2]) < b[1] * (l \div b[2])
RLe(a, b) ==
    LET l == LCM(a[2], b[2])
    IN  a[1] * (l \div a[2]) <= b[1] * (l \div b[2])

\* round(x, k): nearest multiple of 1/scale, ties to the even multiple
RoundTo(x, scale) ==
    LET n == x[1] * scale
        q == n \div x[2]
        r == n - q * x[2]
        up == \/ 2 * r > x[2]
              \/ (2 * r = x[2] /\ q % 2 = 1)
    IN  Norm(IF up THEN q + 1 ELSE q, scale)

\* rounds up to the next multiple of 1/100
Round2Ceil(x) == Norm(-((-(x[1] * 100)) \div x[2]), 100)

Round2(x) == RoundTo(x, 100)
Round1(x) == RoundTo(x, 10)

RECURSIVE SumSeq(_, _)
SumSeq(s, field) ==
    IF s = <<>> THEN Zero
    ELSE RAdd(Head(s)[field], SumSeq(Tail(s), field))

-----------------------------------------------------------------------------
(* Data *)

\* current_price = None
NoPrice == <<>>

\* the floats nan and inf
NaN == <<0, 0>>
Inf == <<1, 0>>

\* (ticker, market) pairs as character sequences
Instruments ==
    << [ticker |-> <<"A">>, market |-> <<"U", "S">>],
       [ticker |-> <<"B">>, market |-> <<"U", "S">>],
       [ticker |-> <<"C">>, market |-> <<"U", "K">>],
       [ticker |-> <<"D">>, market |-> <<"U", "K">>] >>

Scores == {Zero, R(1, 10), R(3, 10), R(9, 10)}
Prices == {R(3, 1), R(7, 1)}
MinPcts == {5, 40, 60}
Budgets == {2000}

\* a row of a scores frame; error = TRUE when the "error" field is set
ScoreRows(i) ==
    { [ticker |-> Instruments[i].ticker, market |-> Instruments[i].market,
       score |-> s, current_price |-> p, error |-> FALSE]
        : s \in Scores, p \in Prices }
    \cup
    { [ticker |-> Instruments[i].ticker, market |-> Instruments[i].market,
       score |-> R(9, 10), current_price |-> NoPrice, error |-> FALSE] }
    \cup
    { [ticker |-> Instruments[i].ticker, market |-> Instruments[i].market,
       score |-> Zero, current_price |-> NoPrice, error |-> TRUE] }

RECURSIVE RowSeqs(_)
RowSeqs(n) ==
    IF n = 0 THEN {<<>>}
    ELSE {Append(s, r) : s \in RowSeqs(n - 1), r \in ScoreRows(n)}

\* frames the allocator can be handed: the "error" column exists when some
\* row sets it, and may exist (all missing) after an upstream row filter
ScoreFrames ==
    UNION { { [rows |-> rs, has_error |-> h]
                : h \in {b \in BOOLEAN : (\E k \in 1..Len(rs) : rs[k].error) => b} }
            : rs \in UNION {RowSeqs(n) : n \in 0..MaxRows} }

EmptyFrame == [rows |-> <<>>, has_error |-> FALSE]

-----------------------------------------------------------------------------
(* PortfolioAllocator *)

min_allocation_pct(cfg) == R(cfg.minimum_allocation_pct, 100)

Returned(rows) == [status |-> "returned", exc |-> "", rows |-> rows]
Raised(e) == [status |-> "raised", exc |-> e, rows |-> <<>>]
NotCalled == [status |-> "none", exc |-> "", rows |-> <<>>]

\* a filter that keeps zero scores
IsPricedScore(row) ==
    /\ row.current_price # NoPrice
    /\ ~row.error

\* scores_df["score"] > 0, current_price.notna(), no error
IsValidScore(row) ==
    /\ RLt(Zero, row.score)
    /\ row.current_price # NoPrice
    /\ ~row.error

ProportionalPct(valid) ==
    LET total_score == SumSeq(valid, "score")
    IN  [k \in 1..Len(valid) |->
            IF total_score = Zero THEN R(1, Len(valid))
            ELSE RDiv(valid[k].score, total_score)]

AdjustedMinPct(cfg, n_tickers) ==
    LET max_budget_for_min == RMul(min_allocation_pct(cfg), R(n_tickers, 1))
    IN  IF RLt(One, max_budget_for_min) THEN R(8, 10 * n_tickers)
        ELSE min_allocation_pct(cfg)

\* a floor that lifts a percentage below the minimum to twice the minimum
ApplyMinimumDoubled(pcts, adjusted_min_pct) ==
    [k \in 1..Len(pcts) |->
        IF RLt(pcts[k], adjusted_min_pct) THEN RMul(R(2, 1), adjusted_min_pct)
        ELSE pcts[k]]

ApplyMinimum(pcts, adjusted_min_pct) ==
    [k \in 1..Len(pcts) |->
        IF RLt(pcts[k], adjusted_min_pct) THEN adjusted_min_pct ELSE pcts[k]]

RECURSIVE SumR(_)
SumR(s) == IF s = <<>> THEN Zero ELSE RAdd(Head(s), SumR(Tail(s)))

RenormalizeNever(pcts) == pcts

Renormalize(pcts) ==
    LET total_allocation == SumR(pcts)
    IN  IF RLt(One, total_allocation)
        THEN [k \in 1..Len(pcts) |-> RDiv(pcts[k], total_allocation)]
        ELSE pcts

\* a positive amount divided by a zero price is inf, and inf x 0 is nan
DollarAmounts(cfg, valid, pcts) ==
    [k \in 1..Len(valid) |->
        LET allocation_amount == RMul(pcts[k], R(cfg.monthly_budget, 1))
            shares == IF valid[k].current_price = Zero THEN Inf
                      ELSE Round2(RDiv(allocation_amount, valid[k].current_price))
        IN  [ticker |-> valid[k].ticker, market |-> valid[k].market,
             score |-> valid[k].score, current_price |-> valid[k].current_price,
             allocation_pct |-> pcts[k],
             allocation_amount |-> allocation_amount,
             shares |-> shares,
             actual_amount |-> IF shares = Inf THEN NaN
                               ELSE RMul(shares, valid[k].current_price)]]

\* sort_values("allocation_amount", ascending=False); ties keep input order
RECURSIVE InsertByAmount(_, _)
InsertByAmount(row, sorted) ==
    IF sorted = <<>> THEN <<row>>
    ELSE IF RLt(Head(sorted).allocation_amount, row.allocation_amount)
         THEN <<row>> \o sorted
         ELSE <<Head(sorted)>> \o InsertByAmount(row, Tail(sorted))

\* no sort: the rows stay in input order
SortByAmountNone(rows) == rows

RECURSIVE SortByAmountDesc(_)
SortByAmountDesc(rows) ==
    IF rows = <<>> THEN <<>>
    ELSE InsertByAmount(rows[Len(rows)], SortByAmountDesc(SubSeq(rows, 1, Len(rows) - 1)))

\* scores_df.get("error", "") yields a column only when the frame has one;
\* otherwise the default "" has no notna() and the expression raises
ErrorMaskDefined(df) == df.has_error

calculate_allocations(cfg, df) ==
    IF Len(df.rows) = 0 THEN Returned(<<>>)
    ELSE IF ~ErrorMaskDefined(df) THEN Raised("AttributeError")
    ELSE LET valid_scores == SelectSeq(df.rows, IsValidScore)
         IN  IF Len(valid_scores) = 0 THEN Returned(<<>>)
             ELSE LET n_tickers == Len(valid_scores)
                      adjusted_min_pct == AdjustedMinPct(cfg, n_tickers)
                      pcts == Renormalize(ApplyMinimum(ProportionalPct(valid_scores),
                                                       adjusted_min_pct))
                  IN  Returned(SortByAmountDesc(DollarAmounts(cfg, valid_scores, pcts)))

-----------------------------------------------------------------------------
(* Configuration *)

NoDate == <<0, 0, 0>>

DefaultConfig ==
    [minimum_allocation_pct |-> 5, monthly_budget |-> 2000,
     scoring_method |-> "reversion", alert_threshold |-> R(3, 10),
     max_alerts_per_period |-> 8, lookback_days |-> 90,
     backtest_start_date |-> NoDate, backtest_end_date |-> NoDate]

AllocatorConfigs ==
    { [DefaultConfig EXCEPT !.minimum_allocation_pct = m, !.monthly_budget = b]
        : m \in MinPcts, b \in Budgets }

\* values of the variables an operation does not use
NoHoldings == [key \in {} |-> 0]

IdleEngine ==
    /\ engine_scorer = "unset"
    /\ ticker_data = <<>>
    /\ current_date = NoDate
    /\ backtest_end = NoDate
    /\ monthly_dates = <<>>
    /\ month_idx = 0
    /\ holdings = NoHoldings
    /\ total_invested = Zero
    /\ backtest_results = <<>>
    /\ last_step = "none"

IdleAlerts ==
    /\ alert_scorer = "unset"
    /\ alerts = NotCalled

engineVars == <<engine_scorer, ticker_data, current_date, backtest_end,
                monthly_dates, month_idx, holdings, total_invested,
                backtest_results, last_step>>
alertVars == <<alert_scorer, alerts>>

IdleOther ==
    /\ score_result = NotCalled
    /\ load_result = NotCalled
    /\ dca = NotCalled
    /\ schedule = NotCalled
    /\ step = NotCalled
    /\ metrics = NotCalled

otherVars == <<score_result, load_result, dca, schedule, step, metrics>>

-----------------------------------------------------------------------------
(* SpecAlloc: PortfolioAllocator.calculate_allocations called on a frame *)

InitAlloc ==
    /\ config \in AllocatorConfigs
    /\ scores_df = EmptyFrame
    /\ allocations_df = NotCalled
    /\ pc = "idle"
    /\ IdleEngine
    /\ IdleAlerts
    /\ IdleOther

CalculateAllocations ==
    /\ pc = "idle"
    /\ \E df \in ScoreFrames :
        /\ scores_df' = df
        /\ allocations_df' = calculate_allocations(config, df)
    /\ pc' = "allocated"
    /\ UNCHANGED <<config, engineVars, alertVars>>
    /\ UNCHANGED otherVars

NextAlloc == CalculateAllocations

SpecAlloc == InitAlloc /\ [][NextAlloc]_vars

-----------------------------------------------------------------------------
(* Claims about the allocator *)

Qualifies(row) ==
    row.score[1] > 0 /\ row.current_price # NoPrice /\ row.error = FALSE

QualifyingTickers(df) ==
    {df.rows[k].ticker : k \in {j \in 1..Len(df.rows) : Qualifies(df.rows[j])}}

\* the batch's effective minimum: the configured minimum_allocation_pct, or
\* 80%/N when minimum_allocation_pct x N > 100%
EffectiveMinimum(cfg, n) ==
    IF cfg.minimum_allocation_pct * n > 100 THEN <<8, 10 * n>>
    ELSE <<cfg.minimum_allocation_pct, 100>>

\* C1: every allocation returned by calculate_allocations has allocation_pct
\* at least the effective minimum of its batch of N valid candidates.
C1_MinimumAllocationHolds ==
    allocations_df.status = "returned" =>
        \A k \in 1..Len(allocations_df.rows) :
            RLe(EffectiveMinimum(config, Len(allocations_df.rows)),
                allocations_df.rows[k].allocation_pct)

\* C2: for every non-empty input batch, with or without an error field,
\* calculate_allocations returns (without raising) exactly one allocation for
\* each row with score > 0, a defined price and no error flag, and none for
\* any other row.
C2_ExactlyQualifyingRows ==
    (pc = "allocated" /\ Len(scores_df.rows) > 0) =>
        /\ allocations_df.status = "returned"
        /\ Len(allocations_df.rows) = Cardinality(QualifyingTickers(scores_df))
        /\ {allocations_df.rows[k].ticker : k \in 1..Len(allocations_df.rows)}
              = QualifyingTickers(scores_df)

RoundingTolerance(rows) ==
    SumR([k \in 1..Len(rows) |-> RMul(<<5, 1000>>, rows[k].current_price)])

\* C3: the sum of actual_amount over the returned allocations is at most the
\* budget plus the share-rounding error, which is at most 0.005 x
\* current_price for each position.
C3_SpendWithinBudget ==
    allocations_df.status = "returned" =>
        LET rows == allocations_df.rows
        IN  /\ RLe(SumSeq(rows, "actual_amount"),
                   RAdd(<<config.monthly_budget, 1>>, RoundingTolerance(rows)))
            /\ \A k \in 1..Len(rows) :
                  RLe(rows[k].actual_amount,
                      RAdd(rows[k].allocation_amount,
                           RMul(<<5, 1000>>, rows[k].current_price)))

\* a returned batch of several positions whose rounded spend exceeds the budget
C3_Witness ==
    /\ allocations_df.status = "returned"
    /\ Len(allocations_df.rows) >= 2
    /\ RLt(<<config.monthly_budget, 1>>, SumSeq(allocations_df.rows, "actual_amount"))

FloorAdjusted(cfg, df) ==
    LET valid == SelectSeq(df.rows, Qualifies)
    IN  [k \in 1..Len(valid) |->
            [ticker |-> valid[k].ticker,
             pct |-> LET p == RDiv(valid[k].score, SumSeq(valid, "score"))
                         m == EffectiveMinimum(cfg, Len(valid))
                     IN  IF RLt(p, m) THEN Norm(m[1], m[2]) ELSE p]]

\* C4: the returned allocation_pct values sum to at most 1.0, and whenever the
\* floor-adjusted percentages sum to more than 100% every percentage is the
\* floor-adjusted one divided by that sum, so that they sum to exactly 100%.
C4_NormalizedPercentages ==
    (allocations_df.status = "returned" /\ Len(allocations_df.rows) > 0) =>
        LET rows == allocations_df.rows
            fa == FloorAdjusted(config, scores_df)
            total == SumSeq(fa, "pct")
        IN  /\ RLe(SumSeq(rows, "allocation_pct"), One)
            /\ RLt(One, total) =>
                  /\ SumSeq(rows, "allocation_pct") = One
                  /\ \A k \in 1..Len(rows) : \E j \in 1..Len(fa) :
                        /\ fa[j].ticker = rows[k].ticker
                        /\ RMul(rows[k].allocation_pct, total) = fa[j].pct

\* a returned batch whose floor-adjusted percentages summed to more than 100%
C4_Witness ==
    /\ allocations_df.status = "returned"
    /\ Len(allocations_df.rows) >= 2
    /\ RLt(One, SumSeq(FloorAdjusted(config, scores_df), "pct"))

-----------------------------------------------------------------------------
(* Calendar dates <<year, month, day>> *)

IsLeap(y) == (y % 4 = 0 /\ y % 100 # 0) \/ y % 400 = 0

DaysInMonth(y, m) ==
    IF m = 2 THEN (IF IsLeap(y) THEN 29 ELSE 28)
    ELSE IF m \in {4, 6, 9, 11} THEN 30 ELSE 31

DateLt(a, b) ==
    \/ a[1] < b[1]
    \/ (a[1] = b[1] /\ a[2] < b[2])
    \/ (a[1] = b[1] /\ a[2] = b[2] /\ a[3] < b[3])

DateLe(a, b) == a = b \/ DateLt(a, b)

DateMax(a, b) == IF DateLt(a, b) THEN b ELSE a
\* the first argument, whatever the second
DateFirst(a, b) == a

DateMin(a, b) == IF DateLt(a, b) THEN a ELSE b

\* date + relativedelta(months=1) keeping the day of the month
AddMonthKeepDay(dt) ==
    IF dt[2] = 12 THEN <<dt[1] + 1, 1, dt[3]>> ELSE <<dt[1], dt[2] + 1, dt[3]>>

\* date + relativedelta(months=1): next month, day clipped to its length
AddMonth(dt) ==
    LET y == IF dt[2] = 12 THEN dt[1] + 1 ELSE dt[1]
        m == IF dt[2] = 12 THEN 1 ELSE dt[2] + 1
        last == DaysInMonth(y, m)
    IN  <<y, m, IF dt[3] > last THEN last ELSE dt[3]>>

-----------------------------------------------------------------------------
(* Price series *)

\* bars needed before an instrument is scored in a month
MinBars == 10
\* lookback_days of the modelled configurations
LookbackDays == 10

RECURSIVE MonthlyBars(_, _)
\* n bars, one a month, the first dated dt
MonthlyBars(dt, n) ==
    IF n = 0 THEN <<>>
    ELSE <<[date |-> dt,
            close |-> IF dt[2] % 2 = 0 THEN R(3, 1) ELSE R(7, 1),
            adjusted_close |-> IF dt[2] % 3 = 0 THEN R(3, 1) ELSE R(7, 1)]>>
         \o MonthlyBars(AddMonth(dt), n - 1)

NoBars == <<>>
ShortSeries == MonthlyBars(<<2022, 11, 26>>, 6)
LongSeries == MonthlyBars(<<2022, 3, 26>>, 15)

SeriesChoices == {NoBars, ShortSeries, LongSeries}

\* ticker_data in iteration order: entry i is instrument i with its frame
TickerDatas ==
    UNION { [1..n -> SeriesChoices] : n \in 0..MaxTickers }

-----------------------------------------------------------------------------
(* BacktestEngine *)

ScoringMethods == {"reversion", "multi_factor"}
StartDates == {<<2023, 1, 15>>, <<2023, 1, 31>>, <<2024, 1, 30>>}
EndDates == {<<2023, 4, 15>>, <<2024, 5, 31>>}

EngineConfigs ==
    { [DefaultConfig EXCEPT !.scoring_method = sm, !.lookback_days = LookbackDays,
                            !.backtest_start_date = sd, !.backtest_end_date = ed]
        : sm \in ScoringMethods, sd \in StartDates, ed \in EndDates }

\* scores the engine's scorer can return for a window
EngineScores == {Zero, R(9, 10)}

\* df.tail(n)
TailRows(df, n) == IF Len(df) <= n THEN df ELSE SubSeq(df, Len(df) - n + 1, Len(df))

\* no date filter: every bar of the frame
UpToLatest(df, target_date) == df

\* df[df["date"] <= target_date]
UpTo(df, target_date) == SelectSeq(df, LAMBDA bar : DateLe(bar.date, target_date))

get_price_at_date(df, target_date) ==
    LET df_dates == UpTo(df, target_date)
    IN  IF Len(df) = 0 \/ Len(df_dates) = 0 THEN NoPrice
        ELSE df_dates[Len(df_dates)].close

get_data_up_to_date(df, target_date, lookback_days) ==
    IF Len(df) = 0 THEN df
    ELSE TailRows(UpTo(df, target_date), lookback_days)

RECURSIVE AvailableRange(_, _, _, _)
\* get_available_data_range: the loop over ticker_data from entry i on
AvailableRange(td, lookback_days, i, acc) ==
    IF i > Len(td) THEN acc
    ELSE LET df == td[i]
         IN  IF Len(df) = 0 THEN AvailableRange(td, lookback_days, i + 1, acc)
             ELSE LET ticker_start == IF Len(df) > lookback_days
                                        THEN df[lookback_days + 1].date
                                        ELSE df[Len(df)].date
                      ticker_end == df[Len(df)].date
                      min_start == IF acc[1] = NoDate \/ DateLt(acc[1], ticker_start)
                                     THEN ticker_start ELSE acc[1]
                      max_end == IF acc[2] = NoDate \/ DateLt(ticker_end, acc[2])
                                   THEN ticker_end ELSE acc[2]
                  IN  AvailableRange(td, lookback_days, i + 1, <<min_start, max_end>>)

get_available_data_range(td, lookback_days) ==
    AvailableRange(td, lookback_days, 1, <<NoDate, NoDate>>)

\* BacktestEngine.__init__: self.scorer
EngineScorerClass(cfg) == "InvestmentScorer"

BacktestEngineInit ==
    /\ pc = "new"
    /\ engine_scorer' = EngineScorerClass(config)
    /\ pc' = "ready"
    /\ UNCHANGED <<config, scores_df, allocations_df, alert_scorer, ticker_data,
                   current_date, backtest_end, monthly_dates, month_idx, holdings,
                   total_invested, backtest_results, last_step, alerts>>
    /\ UNCHANGED otherVars

\* run_monthly_backtest up to the date loop
RunMonthlyBacktestStart ==
    /\ pc = "ready"
    /\ LET range == get_available_data_range(ticker_data, config.lookback_days)
           backtest_start == IF range[1] # NoDate
                               THEN DateMax(config.backtest_start_date, range[1])
                               ELSE config.backtest_start_date
       IN  /\ current_date' = backtest_start
           /\ backtest_end' = IF range[2] # NoDate
                                THEN DateMin(config.backtest_end_date, range[2])
                                ELSE config.backtest_end_date
    /\ monthly_dates' = <<>>
    /\ pc' = "dates"
    /\ UNCHANGED <<config, scores_df, allocations_df, engine_scorer, alert_scorer,
                   ticker_data, month_idx, holdings, total_invested,
                   backtest_results, last_step, alerts>>
    /\ UNCHANGED otherVars

\* one iteration of: while current_date <= backtest_end
GenerateMonthlyDate ==
    /\ pc = "dates"
    /\ DateLe(current_date, backtest_end)
    /\ Len(monthly_dates) < MaxMonths
    /\ monthly_dates' = Append(monthly_dates, current_date)
    /\ current_date' = AddMonth(current_date)
    /\ UNCHANGED <<config, scores_df, allocations_df, engine_scorer, alert_scorer,
                   ticker_data, pc, backtest_end, month_idx, holdings,
                   total_invested, backtest_results, last_step, alerts>>
    /\ UNCHANGED otherVars

\* the date loop ends; an empty date list returns an empty result
MonthlyDatesDone ==
    /\ pc = "dates"
    /\ ~DateLe(current_date, backtest_end) \/ Len(monthly_dates) >= MaxMonths
    /\ IF Len(monthly_dates) = 0
       THEN pc' = "done" /\ month_idx' = 0
       ELSE pc' = "months" /\ month_idx' = 1
    /\ holdings' = NoHoldings
    /\ total_invested' = Zero
    /\ backtest_results' = <<>>
    /\ UNCHANGED <<config, scores_df, allocations_df, engine_scorer, alert_scorer,
                   ticker_data, current_date, backtest_end, monthly_dates,
                   last_step, alerts>>
    /\ UNCHANGED otherVars

\* a score_ticker whose result for an empty series carries no error field
score_ticker_unflagged(scorer, i, price_data, lookback_days, final_score) ==
    [ticker |-> Instruments[i].ticker, market |-> Instruments[i].market,
     score |-> IF Len(price_data) = 0 THEN Zero ELSE final_score,
     current_price |-> IF Len(price_data) = 0 THEN NoPrice
                       ELSE price_data[Len(price_data)].close,
     error |-> FALSE]

\* score_ticker of either scorer; final_score stands for the value its
\* calculate_final_score returns for the window
score_ticker(scorer, i, price_data, lookback_days, final_score) ==
    IF Len(price_data) = 0
    THEN [ticker |-> Instruments[i].ticker, market |-> Instruments[i].market,
          score |-> Zero, current_price |-> NoPrice, error |-> TRUE]
    ELSE LET lookback_data == TailRows(price_data, lookback_days)
             last == lookback_data[Len(lookback_data)]
         IN  [ticker |-> Instruments[i].ticker, market |-> Instruments[i].market,
              score |-> final_score,
              current_price |-> IF scorer = "MeanReversionScorer"
                                  THEN last.adjusted_close ELSE last.close,
              error |-> FALSE]

HasErrorColumn(rows) == \E k \in 1..Len(rows) : rows[k].error

\* key = f"{ticker}_{market}"
HoldingKey(ticker, market) == ticker \o <<"_">> \o market

UpdateHoldingUnweighted(h, row) ==
    LET key == HoldingKey(row.ticker, row.market)
    IN  [k \in DOMAIN h \cup {key} |->
            IF k # key THEN h[k]
            ELSE IF key \in DOMAIN h
                 THEN [shares |-> RAdd(h[key].shares, row.shares),
                       avg_price |-> RDiv(RAdd(h[key].avg_price, row.current_price), <<2, 1>>)]
                 ELSE [shares |-> row.shares, avg_price |-> row.current_price]]

\* the holdings update of one allocation
UpdateHolding(h, row) ==
    LET key == HoldingKey(row.ticker, row.market)
    IN  [k \in DOMAIN h \cup {key} |->
            IF k # key THEN h[k]
            ELSE IF key \in DOMAIN h
                 THEN LET total_shares == RAdd(h[key].shares, row.shares)
                          total_cost == RAdd(RMul(h[key].shares, h[key].avg_price),
                                             row.actual_amount)
                      IN  [shares |-> total_shares,
                           avg_price |-> IF RLt(Zero, total_shares)
                                           THEN RDiv(total_cost, total_shares)
                                           ELSE row.current_price]
                 ELSE [shares |-> row.shares, avg_price |-> row.current_price]]

\* a loop that buys the first allocation only
BuyFirstOnly(h, rows) ==
    IF rows = <<>> THEN h ELSE UpdateHolding(h, Head(rows))

RECURSIVE BuyAll(_, _)
\* for _, allocation in allocations_df.iterrows(): update holdings
BuyAll(h, rows) ==
    IF rows = <<>> THEN h ELSE BuyAll(UpdateHolding(h, Head(rows)), Tail(rows))

month_investments(month_date, rows) ==
    [k \in 1..Len(rows) |->
        [date |-> month_date, ticker |-> rows[k].ticker, market |-> rows[k].market,
         shares |-> rows[k].shares, price |-> rows[k].current_price,
         amount |-> rows[k].actual_amount, score |-> rows[k].score]]

\* the purchases of one month: holdings, total_invested, backtest_results
\* (current_portfolio_value is a local that is only logged)
SimulatePurchases(month_date, rows) ==
    /\ holdings' = BuyAll(holdings, rows)
    /\ total_invested' = RAdd(total_invested, SumSeq(rows, "actual_amount"))
    /\ backtest_results' = backtest_results \o month_investments(month_date, rows)

RECURSIVE ScoresData(_, _, _, _, _)
\* scores_data of one month: a row for each instrument with enough bars
ScoresData(td, month_date, lookback_days, final_scores, i) ==
    IF i > Len(td) THEN <<>>
    ELSE LET month_data == get_data_up_to_date(td[i], month_date, lookback_days)
         IN  (IF Len(month_data) >= MinBars
              THEN <<score_ticker("InvestmentScorer", i, month_data, lookback_days,
                                  final_scores[i])>>
              ELSE <<>>)
             \o ScoresData(td, month_date, lookback_days, final_scores, i + 1)

\* one iteration of: for month_date in monthly_dates
ProcessMonth ==
    /\ pc = "months"
    /\ month_idx <= Len(monthly_dates)
    /\ \E final_scores \in [1..Len(ticker_data) -> EngineScores] :
        LET month_date == monthly_dates[month_idx]
            scores_data == ScoresData(ticker_data, month_date, config.lookback_days,
                                      final_scores, 1)
            frame == [rows |-> scores_data, has_error |-> HasErrorColumn(scores_data)]
            result == calculate_allocations(config, frame)
        IN  IF Len(scores_data) = 0
            THEN /\ last_step' = "skipped"
                 /\ month_idx' = month_idx + 1
                 /\ UNCHANGED <<scores_df, allocations_df, pc, holdings,
                                total_invested, backtest_results>>
            ELSE /\ scores_df' = frame
                 /\ allocations_df' = result
                 /\ IF result.status = "raised"
                    THEN /\ pc' = "raised"
                         /\ last_step' = "raised"
                         /\ UNCHANGED <<month_idx, holdings, total_invested,
                                        backtest_results>>
                    ELSE /\ SimulatePurchases(month_date, result.rows)
                         /\ last_step' = IF Len(result.rows) = 0 THEN "empty"
                                         ELSE "invested"
                         /\ month_idx' = month_idx + 1
                         /\ pc' = pc
    /\ UNCHANGED <<config, engine_scorer, alert_scorer, ticker_data, current_date,
                   backtest_end, monthly_dates, alerts>>
    /\ UNCHANGED otherVars

RECURSIVE AmountRange(_, _, _)
\* amount summed over the events lo..hi
AmountRange(rows, lo, hi) ==
    IF lo > hi THEN Zero ELSE RAdd(AmountRange(rows, lo, hi - 1), rows[hi].amount)

\* groupby(results_df.index // len(allocations_df))["amount"].cumsum(): event
\* n has index n - 1.  A zero divisor gives index 0 the key nan, whose group
\* is dropped, and every other index the key inf
cumulative_invested(rows, group_size, n) ==
    IF group_size = 0
    THEN IF n = 1 THEN NaN ELSE AmountRange(rows, 2, n)
    ELSE AmountRange(rows, ((n - 1) \div group_size) * group_size + 1, n)

\* results_df: the events with their cumulative_invested column
results_df(rows, group_size) ==
    [n \in 1..Len(rows) |->
        [date |-> rows[n].date, ticker |-> rows[n].ticker, market |-> rows[n].market,
         shares |-> rows[n].shares, price |-> rows[n].price,
         amount |-> rows[n].amount, score |-> rows[n].score,
         cumulative_invested |-> cumulative_invested(rows, group_size, n)]]

\* the month loop ends and the events are returned
BacktestFinish ==
    /\ pc = "months"
    /\ month_idx > Len(monthly_dates)
    /\ pc' = "done"
    /\ backtest_results' = results_df(backtest_results, Len(allocations_df.rows))
    /\ UNCHANGED <<config, scores_df, allocations_df, engine_scorer, alert_scorer,
                   ticker_data, current_date, backtest_end, monthly_dates, month_idx,
                   holdings, total_invested, last_step, alerts>>
    /\ UNCHANGED otherVars

Init ==
    /\ config \in EngineConfigs
    /\ ticker_data \in TickerDatas
    /\ pc = "new"
    /\ scores_df = EmptyFrame
    /\ allocations_df = NotCalled
    /\ engine_scorer = "unset"
    /\ current_date = NoDate
    /\ backtest_end = NoDate
    /\ monthly_dates = <<>>
    /\ month_idx = 0
    /\ holdings = NoHoldings
    /\ total_invested = Zero
    /\ backtest_results = <<>>
    /\ last_step = "none"
    /\ IdleAlerts
    /\ IdleOther

Next ==
    \/ BacktestEngineInit
    \/ RunMonthlyBacktestStart
    \/ GenerateMonthlyDate
    \/ MonthlyDatesDone
    \/ ProcessMonth
    \/ BacktestFinish

Spec == Init /\ [][Next]_vars

-----------------------------------------------------------------------------
(* SpecHoldings: the purchase loop of run_monthly_backtest applied, month   *)
(* after month, to allocation tables returned by calculate_allocations      *)

PurchaseScores == {R(1, 10), R(9, 10)}

PurchaseFrames ==
    { [rows |-> rs, has_error |-> TRUE] :
        rs \in UNION { [1..n -> UNION {{r \in ScoreRows(i) : r.score \in PurchaseScores
                                                            /\ r.current_price # NoPrice}
                                          : i \in 1..2}]
                       : n \in 1..2 } }

InitHoldings ==
    /\ config = DefaultConfig
    /\ ticker_data = <<>>
    /\ pc = "months"
    /\ scores_df = EmptyFrame
    /\ allocations_df = NotCalled
    /\ engine_scorer = "InvestmentScorer"
    /\ current_date = NoDate
    /\ backtest_end = NoDate
    /\ monthly_dates = [k \in 1..MaxPurchases |-> <<2023, k, 15>>]
    /\ month_idx = 1
    /\ holdings = NoHoldings
    /\ total_invested = Zero
    /\ backtest_results = <<>>
    /\ last_step = "none"
    /\ IdleAlerts
    /\ IdleOther

PurchaseMonth ==
    /\ pc = "months"
    /\ month_idx <= Len(monthly_dates)
    /\ \E frame \in PurchaseFrames :
        /\ frame.rows[1].ticker # frame.rows[Len(frame.rows)].ticker \/ Len(frame.rows) = 1
        /\ LET result == calculate_allocations(config, frame)
           IN  /\ scores_df' = frame
               /\ allocations_df' = result
               /\ SimulatePurchases(monthly_dates[month_idx], result.rows)
               /\ last_step' = "invested"
    /\ month_idx' = month_idx + 1
    /\ UNCHANGED <<config, engine_scorer, alert_scorer, ticker_data, pc, current_date,
                   backtest_end, monthly_dates, alerts>>
    /\ UNCHANGED otherVars

NextHoldings == PurchaseMonth

SpecHoldings == InitHoldings /\ [][NextHoldings]_vars

-----------------------------------------------------------------------------
(* InvestmentAlertGenerator *)

AlertScores == {R(1, 10), R(3, 10), R(9, 10)}

AlertConfigs ==
    { [DefaultConfig EXCEPT !.scoring_method = sm, !.max_alerts_per_period = ma,
                            !.minimum_allocation_pct = 40,
                            !.lookback_days = LookbackDays]
        : sm \in ScoringMethods, ma \in {1, 8} }

\* InvestmentAlertGenerator.__init__: self.scorer
AlertScorerClass(cfg) ==
    IF cfg.scoring_method = "reversion" THEN "MeanReversionScorer"
    ELSE "InvestmentScorer"

InvestmentAlertGeneratorInit ==
    /\ pc = "new"
    /\ alert_scorer' = AlertScorerClass(config)
    /\ pc' = "ready"
    /\ UNCHANGED <<config, scores_df, allocations_df, engine_scorer, ticker_data,
                   current_date, backtest_end, monthly_dates, month_idx, holdings,
                   total_invested, backtest_results, last_step, alerts>>
    /\ UNCHANGED otherVars

\* sort_values("score", ascending=False); ties keep input order
RECURSIVE InsertByScore(_, _)
InsertByScore(row, sorted) ==
    IF sorted = <<>> THEN <<row>>
    ELSE IF RLt(Head(sorted).score, row.score)
         THEN <<row>> \o sorted
         ELSE <<Head(sorted)>> \o InsertByScore(row, Tail(sorted))

RECURSIVE SortByScoreDesc(_)
SortByScoreDesc(rows) ==
    IF rows = <<>> THEN <<>>
    ELSE InsertByScore(rows[Len(rows)], SortByScoreDesc(SubSeq(rows, 1, Len(rows) - 1)))

\* score_multiple_tickers: InvestmentScorer sorts unconditionally, and sorting
\* the column-less frame of an empty result list by "score" raises KeyError;
\* MeanReversionScorer sorts only a non-empty frame
score_multiple_tickers(scorer, td, lookback_days, final_scores) ==
    LET results == [i \in 1..Len(td) |->
                       score_ticker(scorer, i, td[i], lookback_days, final_scores[i])]
    IN  IF Len(results) = 0
        THEN IF scorer = "InvestmentScorer" THEN Raised("KeyError")
             ELSE Returned(<<>>)
        ELSE Returned(SortByScoreDesc(results))

AlertCandidatesNoThreshold(cfg, rows) ==
    SelectSeq(rows, LAMBDA r : r.current_price # NoPrice)

\* valid_alerts: score >= alert_threshold and a defined current_price
AlertCandidates(cfg, rows) ==
    SelectSeq(rows, LAMBDA r : RLe(cfg.alert_threshold, r.score)
                               /\ r.current_price # NoPrice)

\* _create_alert_message: the numeric fields of the alert
create_alert_message(row) ==
    [ticker |-> row.ticker, market |-> row.market,
     price |-> Round2(row.current_price),
     shares |-> Round2(row.shares),
     amount |-> Round2(row.actual_amount),
     allocation_percentage |-> Round1(RMul(row.allocation_pct, <<100, 1>>)),
     score |-> RoundTo(row.score, 1000)]

\* the last max_alerts entries
TrailingAlerts(messages, max_alerts) ==
    SubSeq(messages,
           IF Len(messages) < max_alerts THEN 1 ELSE Len(messages) - max_alerts + 1,
           Len(messages))

\* alerts[:self.max_alerts]
LeadingAlerts(messages, max_alerts) ==
    SubSeq(messages, 1, IF Len(messages) < max_alerts THEN Len(messages) ELSE max_alerts)

\* the allocator call of generate_alerts, on the frame of valid_alerts
AlertAllocations(cfg, scored) ==
    calculate_allocations(cfg, [rows |-> AlertCandidates(cfg, scored.rows),
                                has_error |-> HasErrorColumn(scored.rows)])

generate_alerts(cfg, scored) ==
    IF scored.status = "raised" THEN scored
    ELSE IF Len(AlertCandidates(cfg, scored.rows)) = 0 THEN Returned(<<>>)
    ELSE LET allocations == AlertAllocations(cfg, scored)
         IN  IF allocations.status = "raised" THEN allocations
             ELSE LET funded == SelectSeq(allocations.rows,
                                          LAMBDA r : RLt(Zero, r.actual_amount))
                      messages == [k \in 1..Len(funded) |-> create_alert_message(funded[k])]
                  IN  Returned(LeadingAlerts(messages, cfg.max_alerts_per_period))

GenerateAlerts ==
    /\ pc = "ready"
    /\ \E final_scores \in [1..Len(ticker_data) -> AlertScores] :
        LET scored == score_multiple_tickers(alert_scorer, ticker_data,
                                             config.lookback_days, final_scores)
        IN  /\ scores_df' = [rows |-> scored.rows,
                             has_error |-> HasErrorColumn(scored.rows)]
            /\ allocations_df' =
                  IF scored.status = "returned"
                     /\ Len(AlertCandidates(config, scored.rows)) > 0
                  THEN AlertAllocations(config, scored)
                  ELSE NotCalled
            /\ alerts' = generate_alerts(config, scored)
    /\ pc' = "done"
    /\ UNCHANGED <<config, engine_scorer, alert_scorer, ticker_data, current_date,
                   backtest_end, monthly_dates, month_idx, holdings, total_invested,
                   backtest_results, last_step>>
    /\ UNCHANGED otherVars

InitAlerts ==
    /\ config \in AlertConfigs
    /\ ticker_data \in TickerDatas
    /\ pc = "new"
    /\ scores_df = EmptyFrame
    /\ allocations_df = NotCalled
    /\ engine_scorer = "unset"
    /\ current_date = NoDate
    /\ backtest_end = NoDate
    /\ monthly_dates = <<>>
    /\ month_idx = 0
    /\ holdings = NoHoldings
    /\ total_invested = Zero
    /\ backtest_results = <<>>
    /\ last_step = "none"
    /\ IdleAlerts
    /\ IdleOther

NextAlerts ==
    \/ InvestmentAlertGeneratorInit
    \/ GenerateAlerts

SpecAlerts == InitAlerts /\ [][NextAlerts]_vars

-----------------------------------------------------------------------------
(* Claims about the backtest engine *)

EventsOf(key) ==
    SelectSeq(backtest_results, LAMBDA e : HoldingKey(e.ticker, e.market) = key)

RECURSIVE PaidFor(_)
\* sum of shares x price over purchase events
PaidFor(events) ==
    IF events = <<>> THEN Zero
    ELSE RAdd(RMul(Head(events).shares, Head(events).price), PaidFor(Tail(events)))

\* C5: after any sequence of purchases of one instrument the holding's
\* average cost is the total paid divided by the total shares held, e.g.
\* (a*p1 + b*p2)/(a+b) after purchases (a at p1) and (b at p2).
C5_AverageCost ==
    \A key \in DOMAIN holdings :
        LET events == EventsOf(key)
        IN  /\ holdings[key].shares = SumSeq(events, "shares")
            /\ RLt(Zero, holdings[key].shares) =>
                  RMul(holdings[key].avg_price, holdings[key].shares) = PaidFor(events)

\* an instrument bought twice, at two different prices
C5_Witness ==
    \E key \in DOMAIN holdings :
        LET events == EventsOf(key)
        IN  /\ Len(events) >= 2
            /\ events[1].price # events[2].price
            /\ RLt(Zero, events[1].shares) /\ RLt(Zero, events[2].shares)

\* C6: the backtest clock advances by exactly one calendar month per step and
\* every step date has the day-of-month of the first step date.
C6_SameDayEveryMonth ==
    \A k \in 1..Len(monthly_dates) :
        /\ monthly_dates[k][3] = monthly_dates[1][3]
        /\ k > 1 => monthly_dates[k] = AddMonthKeepDay(monthly_dates[k - 1])

\* C7: a step in which no instrument is scorable, or in which the allocator
\* has no valid candidate, does not abort the run.
C7_InfeasibleStepNotFatal ==
    /\ last_step = "skipped" => pc # "raised"
    /\ (last_step \in {"raised", "empty"} /\ QualifyingTickers(scores_df) = {})
          => pc # "raised"

ConfiguredScorer(cfg) ==
    IF cfg.scoring_method = "reversion" THEN "MeanReversionScorer"
    ELSE "InvestmentScorer"

\* C10: both drivers score with the scorer that scoring_method selects:
\* MeanReversionScorer for reversion, InvestmentScorer for multi_factor.
C10_ScorerFollowsConfig ==
    /\ engine_scorer # "unset" => engine_scorer = ConfiguredScorer(config)
    /\ alert_scorer # "unset" => alert_scorer = ConfiguredScorer(config)

-----------------------------------------------------------------------------
(* Claims about the alert generator *)

AlertMatches(alert, row) ==
    /\ alert.ticker = row.ticker
    /\ alert.market = row.market
    /\ alert.shares = RoundTo(row.shares, 100)
    /\ alert.amount = RoundTo(row.actual_amount, 100)
    /\ alert.allocation_percentage = RoundTo(RMul(row.allocation_pct, <<100, 1>>), 10)

\* C8 as stated: each alert's shares, amount and allocation_percentage are
\* what the allocator assigns to that instrument over the full scored set,
\* instruments scoring below the alert threshold included.
C8_AllocatedOverAllScored ==
    alerts.status = "returned" =>
        LET full == calculate_allocations(config, scores_df)
        IN  \A k \in 1..Len(alerts.rows) :
                /\ full.status = "returned"
                /\ \E j \in 1..Len(full.rows) : AlertMatches(alerts.rows[k], full.rows[j])

AtOrAboveThreshold(df) ==
    [rows |-> SelectSeq(df.rows, LAMBDA r : r.current_price # NoPrice
                                            /\ ~RLt(r.score, config.alert_threshold)),
     has_error |-> df.has_error]

\* C8 amended: the alert threshold is applied to the scores before the
\* allocation, so each alert's shares, amount and allocation_percentage are
\* what the allocator assigns to that instrument over the instruments with
\* score >= alert_threshold and a defined price only.
C8_AllocatedOverThresholded ==
    alerts.status = "returned" =>
        LET kept == calculate_allocations(config, AtOrAboveThreshold(scores_df))
        IN  \A k \in 1..Len(alerts.rows) :
                /\ kept.status = "returned"
                /\ \E j \in 1..Len(kept.rows) : AlertMatches(alerts.rows[k], kept.rows[j])

\* alerts were produced while a scored instrument with a positive score and a
\* defined price sat below the threshold
C8_Witness ==
    /\ alerts.status = "returned"
    /\ Len(alerts.rows) > 0
    /\ \E k \in 1..Len(scores_df.rows) :
          /\ RLt(Zero, scores_df.rows[k].score)
          /\ RLt(scores_df.rows[k].score, config.alert_threshold)
          /\ scores_df.rows[k].current_price # NoPrice

\* C9: every alert returned comes from an allocation with score >=
\* alert_threshold and actual_amount > 0, at most max_alerts_per_period alerts
\* are returned, and when no instrument qualifies the call returns an empty
\* list without raising.
C9_AlertsQualifyOrEmpty ==
    pc = "done" =>
        /\ alerts.status = "returned" =>
              /\ Len(alerts.rows) <= config.max_alerts_per_period
              /\ \A k \in 1..Len(alerts.rows) :
                    \E j \in 1..Len(allocations_df.rows) :
                       /\ allocations_df.rows[j].ticker = alerts.rows[k].ticker
                       /\ RLe(config.alert_threshold, allocations_df.rows[j].score)
                       /\ RLt(Zero, allocations_df.rows[j].actual_amount)
        /\ Len(AtOrAboveThreshold(scores_df).rows) = 0 =>
              alerts = Returned(<<>>)

-----------------------------------------------------------------------------
(* Price windows of the scorers *)

\* bars of the longest series handed to score_ticker
MaxBars == 12

RNeg(a) == <<-a[1], a[2]>>
RSub(a, b) == RAdd(a, RNeg(b))

Cyc(motif, i) == motif[((i - 1) % Len(motif)) + 1]

Shapes == {"flat", "zigzag", "falling", "rising", "above", "below"}

\* bar i of a series of the given shape; "above" and "below" close outside
\* the bar's own high-low range
ShapeBar(shape, i) ==
    LET c == CASE shape = "flat" -> 7
               [] shape = "zigzag" -> Cyc(<<7, 3>>, i)
               [] shape = "falling" -> Cyc(<<12, 8, 6, 4, 3, 2>>, i)
               [] shape = "rising" -> Cyc(<<2, 3, 4, 6, 8, 12>>, i)
               [] shape = "above" -> Cyc(<<7, 8>>, i)
               [] shape = "below" -> Cyc(<<2, 1>>, i)
        h == CASE shape = "flat" -> c
               [] shape = "above" -> 6
               [] shape = "below" -> 7
               [] OTHER -> c + 1
        l == CASE shape = "flat" -> c
               [] shape = "above" -> 5
               [] shape = "below" -> 3
               [] OTHER -> c - 1
    IN  [date |-> <<2023, 1, i>>, close |-> R(c, 1), adjusted_close |-> R(c, 1),
         high |-> R(h, 1), low |-> R(l, 1),
         volume |-> IF shape = "falling" /\ i > 8 THEN R(2, 1) ELSE R(1, 1)]

ShapeSeries(shape, n) == [i \in 1..n |-> ShapeBar(shape, i)]

ScorerSeries == {ShapeSeries(shape, n) : shape \in Shapes, n \in 1..MaxBars}

\* df[field].max() and df[field].min() of a frame with at least one row
MaxOf(df, field) ==
    LET values == {df[i][field] : i \in 1..Len(df)}
    IN  CHOOSE m \in values : \A v \in values : RLe(v, m)

MinOf(df, field) ==
    LET values == {df[i][field] : i \in 1..Len(df)}
    IN  CHOOSE m \in values : \A v \in values : RLe(m, v)

\* a + b; the tests against Zero leave the sum unchanged and make each
\* operand a value before the two are added
AddParts(a, b) ==
    IF a = Zero THEN b
    ELSE IF b = Zero THEN a
    ELSE RAdd(a, b)

RECURSIVE SumRange(_, _, _)
\* col[lo] + ... + col[hi], added by halves
SumRange(col, lo, hi) ==
    IF lo > hi THEN Zero
    ELSE IF lo = hi THEN col[lo]
    ELSE AddParts(SumRange(col, lo, (lo + hi) \div 2),
                  SumRange(col, (lo + hi) \div 2 + 1, hi))

\* the sum of col[from..Len(col)]
SumFrom(col, from) ==
    IF Len(col) = 0 THEN Zero ELSE SumRange(col, from, Len(col))

\* a * b, with the operands made values first
MulParts(a, b) ==
    IF a = One THEN b
    ELSE IF b = One THEN a
    ELSE RMul(a, b)

RECURSIVE RPow(_, _)
\* a ** k for k >= 0, by squaring
RPow(a, k) ==
    IF k = 0 THEN One
    ELSE IF k % 2 = 0 THEN RPow(MulParts(a, a), k \div 2)
    ELSE MulParts(a, RPow(MulParts(a, a), k \div 2))

\* df["close"].pct_change(): NaN for the first bar
pct_change(df) ==
    [i \in 1..Len(df) |->
        IF i = 1 THEN NaN
        ELSE RSub(RDiv(df[i].close, df[i - 1].close), One)]

fillna0(col) == [i \in 1..Len(col) |-> IF col[i] = NaN THEN Zero ELSE col[i]]

Reverse(s) == [i \in 1..Len(s) |-> s[Len(s) + 1 - i]]

-----------------------------------------------------------------------------
(* InvestmentScorer *)

DefaultWeights ==
    [price_position |-> R(4, 10), momentum_decay |-> R(3, 10),
     volatility_adjusted |-> R(2, 10), volume_confirmation |-> R(1, 10)]

\* InvestmentScorer.__init__
scorer_weights(cfg) ==
    IF "scoring_weights" \in DOMAIN cfg THEN cfg.scoring_weights ELSE DefaultWeights
scorer_momentum_decay_factor(cfg) ==
    IF "momentum_decay_factor" \in DOMAIN cfg THEN cfg.momentum_decay_factor
    ELSE R(95, 100)
scorer_volatility_window(cfg) ==
    IF "volatility_window" \in DOMAIN cfg THEN cfg.volatility_window ELSE 30

ClampNone(x) == x

\* max(0.0, min(1.0, x))
Clamp01(x) ==
    LET m == IF RLt(x, One) THEN x ELSE One
    IN  IF RLt(Zero, m) THEN m ELSE Zero

price_position_unguarded(df) ==
    IF Len(df) < 2 THEN Zero
    ELSE Clamp01(RDiv(RSub(MaxOf(df, "high"), df[Len(df)].close),
                      RSub(MaxOf(df, "high"), MinOf(df, "low"))))

calculate_price_position_score(df) ==
    IF Len(df) < 2 THEN Zero
    ELSE LET current_price == df[Len(df)].close
             high_90d == MaxOf(df, "high")
             low_90d == MinOf(df, "low")
         IN  IF high_90d = low_90d THEN R(1, 2)
             ELSE Clamp01(RDiv(RSub(high_90d, current_price),
                               RSub(high_90d, low_90d)))

\* the loop over reversed(recent_returns): the k-th return visited meets
\* weight * factor ** (k - 1)
\* what one return adds to score
MomentumTerm(ret, weight) ==
    IF RLt(ret, Zero) THEN RMul(weight, RNeg(ret))
    ELSE RNeg(RMul(RMul(weight, ret), R(1, 2)))

MomentumSum(rets, weight, factor) ==
    IF Len(rets) = 0 THEN Zero
    ELSE SumFrom([k \in 1..Len(rets) |->
                    MomentumTerm(rets[k], MulParts(weight, RPow(factor, k - 1)))],
                 1)

\* max(0.0, min(1.0, score / by))
ClampedRatio(score, by) ==
    IF score = Zero THEN Clamp01(Zero) ELSE Clamp01(RDiv(score, by))

calculate_momentum_decay_score(cfg, df) ==
    IF Len(df) < 5 THEN Zero
    ELSE LET recent_returns == fillna0(TailRows(pct_change(df), 20))
             score == MomentumSum(Reverse(recent_returns), One,
                                  scorer_momentum_decay_factor(cfg))
         IN  ClampedRatio(score, R(2, 1))

\* df_temp["returns"].std() == 0: at least two returns, all of them equal
VolatilityIsZero(df) ==
    LET returns == pct_change(df)
    IN  /\ Len(df) >= 3
        /\ \A i \in 2..Len(df) : returns[i] = returns[2]

\* df.iloc[-5] of a frame of fewer than five rows raises IndexError
VolatilityAdjustedRaises(cfg, df) ==
    /\ Len(df) >= scorer_volatility_window(cfg)
    /\ ~VolatilityIsZero(df)
    /\ Len(df) < 5

\* values of 2 / (1 + exp(-x)) - 1 for x > 0, which the float arithmetic
\* rounds to 1.0 for large x
SigmoidValues == {R(1, 10), R(1, 2), One}

\* sigmoid stands for 2 / (1 + np.exp(-vol_adjusted_decline)) - 1 when
\* vol_adjusted_decline > 0; for vol_adjusted_decline = 0 it is 2/(1+1) - 1
calculate_volatility_adjusted_score(cfg, df, sigmoid) ==
    IF Len(df) < scorer_volatility_window(cfg) THEN Zero
    ELSE IF VolatilityIsZero(df) THEN R(1, 2)
    ELSE LET n == Len(df)
             recent_change == RDiv(RSub(df[n].close, df[n - 4].close), df[n - 4].close)
             score == IF RLt(recent_change, Zero) THEN sigmoid ELSE Zero
         IN  Clamp01(score)

\* rolling(window=20, min_periods=5).mean() at row t
volume_ma(df, t) ==
    LET from == IF t > 20 THEN t - 19 ELSE 1
        cnt == t - from + 1
    IN  IF cnt < 5 THEN NaN
        ELSE RDiv(SumRange([i \in 1..Len(df) |-> df[i].volume], from, t),
                  R(cnt, 1))

\* row["volume"] / row["volume_ma"] if row["volume_ma"] > 0 else 1.0
VolumeRatio(volume, ma) == IF RLt(Zero, ma) THEN RDiv(volume, ma) ELSE One

\* what one row of recent_data adds to volume_score
VolumeTerm(ret, ma, volume_ratio) ==
    IF ret = NaN \/ ma = NaN THEN Zero
    ELSE IF RLt(ret, Zero) THEN RMul(volume_ratio, RNeg(ret))
    ELSE IF RLt(Zero, ret) THEN RNeg(RMul(RMul(volume_ratio, ret), R(3, 10)))
    ELSE Zero

\* the loop over recent_data.iterrows(), rows t..Len(df)
VolumeSum(df, returns, t) ==
    IF Len(returns) = 0 THEN Zero
    ELSE SumFrom([j \in 1..Len(df) |->
                    VolumeTerm(returns[j], volume_ma(df, j),
                               VolumeRatio(df[j].volume, volume_ma(df, j)))],
                 t)

calculate_volume_confirmation_score(df) ==
    IF Len(df) < 10 THEN Zero
    ELSE LET volume_score == VolumeSum(df, pct_change(df), Len(df) - 9)
         IN  ClampedRatio(volume_score, R(5, 1))

NoComponents == [c \in {} |-> Zero]

ComponentNames ==
    {"price_position", "momentum_decay", "volatility_adjusted", "volume_confirmation"}

\* the components are computed before the final score that weighs them
Scored(score, components) ==
    [status |-> "returned", exc |-> "", components |-> components, score |-> score]
ScoringRaised(e) ==
    [status |-> "raised", exc |-> e, score |-> Zero, components |-> NoComponents]

WeightedSum(cfg, components) ==
    LET w == scorer_weights(cfg)
    IN  RAdd(RAdd(RMul(components.price_position, w.price_position),
                  RMul(components.momentum_decay, w.momentum_decay)),
             RAdd(RMul(components.volatility_adjusted, w.volatility_adjusted),
                  RMul(components.volume_confirmation, w.volume_confirmation)))

\* return final_score, {...the four components, "final_score": final_score}
WithFinalScore(components, final_score) ==
    Scored(final_score,
           [price_position |-> components.price_position,
            momentum_decay |-> components.momentum_decay,
            volatility_adjusted |-> components.volatility_adjusted,
            volume_confirmation |-> components.volume_confirmation,
            final_score |-> final_score])

ScoredWith(cfg, components) ==
    WithFinalScore(components, WeightedSum(cfg, components))

\* InvestmentScorer.calculate_final_score
calculate_final_score(cfg, df, sigmoid) ==
    IF Len(df) = 0 THEN Scored(Zero, NoComponents)
    ELSE IF VolatilityAdjustedRaises(cfg, df) THEN ScoringRaised("IndexError")
    ELSE IF ~(ComponentNames \subseteq DOMAIN scorer_weights(cfg))
         THEN ScoringRaised("KeyError")
    ELSE ScoredWith(cfg,
                    [price_position |-> calculate_price_position_score(df),
                     momentum_decay |-> calculate_momentum_decay_score(cfg, df),
                     volatility_adjusted |->
                         calculate_volatility_adjusted_score(cfg, df, sigmoid),
                     volume_confirmation |->
                         calculate_volume_confirmation_score(df)])

-----------------------------------------------------------------------------
(* MeanReversionScorer *)

ReversionWeights ==
    [oversold_score |-> R(7, 10), quality_filter |-> R(2, 10),
     volatility_bonus |-> R(1, 10)]

\* df["adjusted_close"]
AdjustedCloses(df) == [i \in 1..Len(df) |-> df[i].adjusted_close]

Volumes(df) == [i \in 1..Len(df) |-> df[i].volume]

\* col[lo..hi].mean()
MeanRange(col, lo, hi) == RDiv(SumRange(col, lo, hi), R(hi - lo + 1, 1))

\* col[lo..hi].max() and col[lo..hi].min()
MaxRange(col, lo, hi) ==
    CHOOSE m \in {col[i] : i \in lo..hi} : \A j \in lo..hi : RLe(col[j], m)

MinRange(col, lo, hi) ==
    CHOOSE m \in {col[i] : i \in lo..hi} : \A j \in lo..hi : RLe(m, col[j])

RMin(a, b) == IF RLt(a, b) THEN a ELSE b

\* trend_slope * (n - 1) + trend_intercept of np.polyfit(np.arange(n),
\* prices, 1) for the n prices col[lo..lo + n - 1]: the least-squares line
\* through (x, y) passes through the means, so its value at x = n - 1 is
\* mean(y) + slope * (n - 1) / 2 with slope = 6 * sum((2x - n + 1) * y) /
\* (n * (n * n - 1)), computed exactly
TrendPrice(col, lo, n) ==
    RAdd(MeanRange(col, lo, lo + n - 1),
         RDiv(RMul(R(3, 1),
                   SumRange([k \in 1..Len(col) |->
                                RMul(R(2 * (k - lo) - n + 1, 1), col[k])],
                            lo, lo + n - 1)),
              R(n * (n + 1), 1)))

\* min((reference - current_price) / reference * factor, cap) when the price
\* is below the reference, nothing otherwise
Discount(current_price, reference, factor, cap) ==
    IF RLt(current_price, reference)
    THEN RMin(RMul(RDiv(RSub(reference, current_price), reference), factor), cap)
    ELSE Zero

Signal(current_price, reference) == IF RLt(current_price, reference) THEN 1 ELSE 0

OversoldOf(current_price, ma_20, ma_50, trend_price) ==
    LET score == AddParts(AddParts(Discount(current_price, ma_20, R(3, 1), R(4, 10)),
                                   Discount(current_price, ma_50, R(2, 1), R(3, 10))),
                          Discount(current_price, trend_price, R(2, 1), R(3, 10)))
        oversold_signals == Signal(current_price, ma_20) + Signal(current_price, ma_50)
                            + Signal(current_price, trend_price)
    IN  IF oversold_signals >= 2 THEN Clamp01(RMul(score, R(12, 10)))
        ELSE Clamp01(score)

OversoldWith(prices, n, ma_50) ==
    OversoldOf(prices[n], MeanRange(prices, n - 19, n), ma_50,
               IF n >= 60 THEN TrendPrice(prices, n - 59, 60) ELSE ma_50)

calculate_oversold_score(df) ==
    IF Len(df) < 30 THEN Zero
    ELSE OversoldWith(AdjustedCloses(df), Len(df),
                      MeanRange(AdjustedCloses(df),
                                IF Len(df) > 50 THEN Len(df) - 49 ELSE 1, Len(df)))

\* df["adjusted_close"].pct_change().fillna(0)
adjusted_returns(df) ==
    [i \in 1..Len(df) |->
        IF i = 1 THEN Zero
        ELSE RSub(RDiv(df[i].adjusted_close, df[i - 1].adjusted_close), One)]

\* df.iloc[-61] of a frame of exactly sixty rows raises IndexError
QualityFilterRaises(df) == Len(df) = 60

DeclinePenalty(recent_max_decline) ==
    IF RLt(R(25, 100), recent_max_decline) THEN R(2, 10)
    ELSE IF RLt(R(15, 100), recent_max_decline) THEN R(5, 10)
    ELSE IF RLt(R(10, 100), recent_max_decline) THEN R(7, 10)
    ELSE One

SingleDayPenalty(recent_min_return) ==
    IF RLt(recent_min_return, R(-15, 100)) THEN R(3, 10)
    ELSE IF RLt(recent_min_return, R(-10, 100)) THEN R(6, 10)
    ELSE One

SecularPenalty(long_term_return) ==
    IF RLt(long_term_return, R(-30, 100)) THEN R(4, 10)
    ELSE IF RLt(long_term_return, R(-20, 100)) THEN R(7, 10)
    ELSE One

VolumePenalty(recent_vol, avg_vol) ==
    IF RLt(recent_vol, RMul(avg_vol, R(5, 10))) THEN R(8, 10) ELSE One

\* (df.tail(10)[..].max() - last) / df.tail(10)[..].max()
MaxDecline(prices, n, recent_max) == RDiv(RSub(recent_max, prices[n]), recent_max)

QualityOf(df, prices, n) ==
    Clamp01(
        MulParts(MulParts(DeclinePenalty(MaxDecline(prices, n,
                                                    MaxRange(prices, n - 9, n))),
                          SingleDayPenalty(MinRange(adjusted_returns(df), n - 4, n))),
                 MulParts(SecularPenalty(
                              RSub(RDiv(prices[n],
                                        prices[IF n >= 60 THEN n - 60 ELSE 1]), One)),
                          VolumePenalty(MeanRange(Volumes(df), n - 9, n),
                                        MeanRange(Volumes(df), 1, n)))))

calculate_quality_filter(df) ==
    IF Len(df) < 30 THEN Zero
    ELSE QualityOf(df, AdjustedCloses(df), Len(df))

\* values of returns.std() of returns that are not all equal
StdValues == {R(1, 100), R(1, 10)}

\* returns.tail(30).std() if len(df) >= 30 else returns.std() is zero exactly
\* when the returns it is taken over are all equal
VolatilityOf(returns, n, std) ==
    IF \A i \in (IF n >= 30 THEN n - 29 ELSE 1)..n : returns[i] = returns[n]
    THEN Zero ELSE std

\* std stands for the standard deviation of returns that are not all equal
calculate_volatility_bonus(df, std) ==
    IF Len(df) < 20 THEN Zero
    ELSE RMin(RMul(VolatilityOf(adjusted_returns(df), Len(df), std), R(15, 1)), One)

ReversionWeighted(components) ==
    AddParts(AddParts(RMul(components.oversold_score, ReversionWeights.oversold_score),
                      RMul(components.quality_filter, ReversionWeights.quality_filter)),
             RMul(components.volatility_bonus, ReversionWeights.volatility_bonus))

ReversionUnfiltered(components) == ReversionWeighted(components)

\* final_score *= quality_filter
ReversionFinal(components) ==
    RMul(ReversionWeighted(components), components.quality_filter)

ReversionScored(components, final_score) ==
    Scored(final_score,
           [oversold_score |-> components.oversold_score,
            quality_filter |-> components.quality_filter,
            volatility_bonus |-> components.volatility_bonus,
            final_score |-> final_score])

ReversionScoredWith(components) ==
    ReversionScored(components, ReversionFinal(components))

\* MeanReversionScorer.calculate_final_score
reversion_calculate_final_score(df, std) ==
    IF Len(df) = 0 THEN Scored(Zero, NoComponents)
    ELSE IF QualityFilterRaises(df) THEN ScoringRaised("IndexError")
    ELSE ReversionScoredWith(
             [oversold_score |-> calculate_oversold_score(df),
              quality_filter |-> calculate_quality_filter(df),
              volatility_bonus |-> calculate_volatility_bonus(df, std)])

-----------------------------------------------------------------------------
(* SpecScorer: score_ticker of either scorer called on one series *)

Ext(cfg, extra) ==
    [k \in DOMAIN cfg \cup DOMAIN extra |->
        IF k \in DOMAIN extra THEN extra[k] ELSE cfg[k]]

WeightChoices ==
    { DefaultWeights,
      [price_position |-> R(1005, 1000), momentum_decay |-> Zero,
       volatility_adjusted |-> Zero, volume_confirmation |-> Zero],
      [price_position |-> R(2, 1), momentum_decay |-> R(-1, 1),
       volatility_adjusted |-> Zero, volume_confirmation |-> Zero],
      [price_position |-> One, momentum_decay |-> One,
       volatility_adjusted |-> Zero, volume_confirmation |-> Zero],
      [price_position |-> One] }

VolatilityWindows == {3, 5, 30}

ScorerConfigs ==
    { Ext(DefaultConfig,
          [lookback_days |-> LookbackDays, scoring_weights |-> w,
           momentum_decay_factor |-> R(1, 2), volatility_window |-> vw,
           supported_markets |-> {<<"U", "S">>, <<"U", "K">>},
           tickers |-> Instruments])
        : w \in WeightChoices, vw \in VolatilityWindows }

ScorerClasses == {"InvestmentScorer", "MeanReversionScorer"}

\* the whole score_ticker call: the result's frame columns, its "components"
\* entry, and an exception of calculate_final_score passing through
ScoreTickerCall(scorer, cfg, i, price_data, sigmoid, std) ==
    LET lookback_data == TailRows(price_data, cfg.lookback_days)
        final == IF scorer = "MeanReversionScorer"
                 THEN reversion_calculate_final_score(lookback_data, std)
                 ELSE calculate_final_score(cfg, lookback_data, sigmoid)
    IN  IF Len(price_data) > 0 /\ final.status = "raised"
        THEN [status |-> "raised", exc |-> final.exc, rows |-> <<>>,
              components |-> NoComponents]
        ELSE [status |-> "returned", exc |-> "",
              rows |-> <<score_ticker(scorer, i, price_data, cfg.lookback_days,
                                      final.score)>>,
              components |-> IF Len(price_data) = 0 THEN NoComponents
                             ELSE final.components]

SeriesKinds == {"None", "empty", "bars"}

InitScorer ==
    /\ config \in ScorerConfigs
    /\ pc = "idle"
    /\ scores_df = EmptyFrame
    /\ allocations_df = NotCalled
    /\ IdleEngine
    /\ IdleAlerts
    /\ IdleOther

\* price_data is None and an empty frame take the same branch of score_ticker
ScoreTicker ==
    /\ pc = "idle"
    /\ \E scorer \in ScorerClasses, kind \in SeriesKinds, series \in ScorerSeries,
          sigmoid \in SigmoidValues, std \in StdValues :
        LET price_data == IF kind = "bars" THEN series ELSE <<>>
        IN  /\ ticker_data' = <<price_data>>
            /\ score_result' =
                  Ext(ScoreTickerCall(scorer, config, 1, price_data, sigmoid, std),
                      [scorer |-> scorer, price_data |-> kind])
    /\ pc' = "scored"
    /\ UNCHANGED <<config, scores_df, allocations_df, engine_scorer, alert_scorer,
                   current_date, backtest_end, monthly_dates, month_idx, holdings,
                   total_invested, backtest_results, last_step, alerts,
                   load_result, dca, schedule, step, metrics>>

NextScorer == ScoreTicker

SpecScorer == InitScorer /\ [][NextScorer]_vars

-----------------------------------------------------------------------------
(* ConfigLoader.validate_config *)

RequiredSettings ==
    <<"monthly_budget", "lookback_days", "scoring_weights", "supported_markets">>
RequiredTickers == <<"tickers">>

RECURSIVE SumValues(_, _)
\* sum(weights.values())
SumValues(w, keys) ==
    IF keys = {} THEN Zero
    ELSE LET k == CHOOSE x \in keys : TRUE
         IN  RAdd(w[k], SumValues(w, keys \ {k}))

RAbs(a) == <<Abs(a[1]), a[2]>>

\* a validation that does not look at monthly_budget
validate_config_any_budget(cfg) ==
    IF \E n \in 1..Len(RequiredSettings) : RequiredSettings[n] \notin DOMAIN cfg
    THEN FALSE
    ELSE IF \E n \in 1..Len(RequiredTickers) : RequiredTickers[n] \notin DOMAIN cfg
    THEN FALSE
    ELSE LET weights == cfg.scoring_weights
             weight_sum == SumValues(weights, DOMAIN weights)
         IN  ~RLt(R(1, 100), RAbs(RSub(weight_sum, One)))

validate_config(cfg) ==
    IF \E n \in 1..Len(RequiredSettings) : RequiredSettings[n] \notin DOMAIN cfg
    THEN FALSE
    ELSE IF \E n \in 1..Len(RequiredTickers) : RequiredTickers[n] \notin DOMAIN cfg
    THEN FALSE
    ELSE LET weights == cfg.scoring_weights
             weight_sum == SumValues(weights, DOMAIN weights)
         IN  IF RLt(R(1, 100), RAbs(RSub(weight_sum, One))) THEN FALSE
             ELSE IF cfg.monthly_budget <= 0 THEN FALSE
             ELSE TRUE

-----------------------------------------------------------------------------
(* Claims about the scorers *)

ScoredRow == score_result.rows[1]

\* C11: for both scorers, score_ticker called with a missing (None) or empty
\* series returns, without raising, a result with score 0.0, empty
\* components, no current price and the error field set; a result scored
\* from bars never carries the error field, a genuine score of 0 included.
C11_MissingSeriesIsFlagged ==
    pc = "scored" =>
        /\ score_result.price_data \in {"None", "empty"} =>
              /\ score_result.status = "returned"
              /\ ScoredRow.score = Zero
              /\ DOMAIN score_result.components = {}
              /\ ScoredRow.current_price = NoPrice
              /\ ScoredRow.error = TRUE
        /\ (score_result.price_data = "bars" /\ score_result.status = "returned") =>
              /\ ScoredRow.error = FALSE
              /\ ScoredRow.current_price # NoPrice

\* a missing series scored by the mean-reversion scorer
C11_Witness ==
    /\ pc = "scored"
    /\ score_result.price_data = "None"
    /\ score_result.scorer = "MeanReversionScorer"
    /\ score_result.status = "returned"
    /\ ScoredRow.error = TRUE

\* a genuine score of 0: bars were scored, the score is 0 and no error is set
GenuineZeroScore ==
    /\ pc = "scored"
    /\ score_result.price_data = "bars"
    /\ score_result.status = "returned"
    /\ ScoredRow.score = Zero
    /\ ScoredRow.error = FALSE

InUnitInterval(x) == RLe(Zero, x) /\ RLe(x, One)

\* C12: for every non-empty window the multi-factor scorer scores, each of
\* price_position, momentum_decay, volatility_adjusted and
\* volume_confirmation is in [0,1] and final_score is the sum of the four
\* components weighted with the configured scoring_weights.
C12_ComponentsInRangeAndWeighted ==
    (/\ pc = "scored"
     /\ score_result.scorer = "InvestmentScorer"
     /\ score_result.price_data = "bars"
     /\ score_result.status = "returned") =>
        LET c == score_result.components
            w == config.scoring_weights
        IN  /\ \A name \in ComponentNames : InUnitInterval(c[name])
            /\ c.final_score = ScoredRow.score
            /\ ScoredRow.score =
                  RAdd(RMul(c.volume_confirmation, w.volume_confirmation),
                       RAdd(RMul(c.volatility_adjusted, w.volatility_adjusted),
                            RAdd(RMul(c.momentum_decay, w.momentum_decay),
                                 RMul(c.price_position, w.price_position))))

\* a window on which the clamp of every range-limited component has something
\* to do: all four components computed, three of them non-zero
C12_Witness ==
    /\ pc = "scored"
    /\ score_result.scorer = "InvestmentScorer"
    /\ score_result.price_data = "bars"
    /\ score_result.status = "returned"
    /\ Len(ticker_data[1]) >= 10
    /\ RLt(Zero, score_result.components.price_position)
    /\ RLt(Zero, score_result.components.momentum_decay)
    /\ RLt(Zero, score_result.components.volatility_adjusted)

\* C13: for every configuration validate_config accepts and every non-empty
\* window, score_ticker returns a score in [0,1].
C13_AcceptedConfigScoresInRange ==
    (/\ pc = "scored"
     /\ score_result.price_data = "bars"
     /\ validate_config(config)) =>
        /\ score_result.status = "returned"
        /\ InUnitInterval(ScoredRow.score)

-----------------------------------------------------------------------------
(* SpecConfig: load_config, then the command that scores *)

RequiredKeys ==
    {"monthly_budget", "lookback_days", "scoring_weights", "supported_markets",
     "tickers"}

WeightsSummingTo(total) ==
    [DefaultWeights EXCEPT !.price_position = RSub(total, R(6, 10))]

LoadedWeights ==
    { WeightsSummingTo(One), WeightsSummingTo(R(1005, 1000)),
      WeightsSummingTo(R(995, 1000)), WeightsSummingTo(R(102, 100)),
      WeightsSummingTo(R(14, 10)) }

LoadedBudgets == {2000, 0, -100}

Without(cfg, keys) == [k \in DOMAIN cfg \ keys |-> cfg[k]]

\* what load_full_config can read from the configuration files
LoadedConfigs ==
    { Without(Ext(DefaultConfig,
                  [monthly_budget |-> b, lookback_days |-> LookbackDays,
                   scoring_weights |-> w, momentum_decay_factor |-> R(1, 2),
                   volatility_window |-> 30,
                   supported_markets |-> {<<"U", "S">>, <<"U", "K">>},
                   tickers |-> Instruments, total_tickers |-> Len(Instruments)]),
              missing)
        : b \in LoadedBudgets, w \in LoadedWeights,
          missing \in {{}} \cup {{k} : k \in RequiredKeys} }

\* load_config: raise ValueError unless validate_config(config)
load_config(cfg) ==
    IF ~validate_config(cfg) THEN Raised("ValueError") ELSE Returned(<<cfg>>)

InitConfig ==
    /\ config \in LoadedConfigs
    /\ pc = "new"
    /\ scores_df = EmptyFrame
    /\ allocations_df = NotCalled
    /\ IdleEngine
    /\ IdleAlerts
    /\ IdleOther

LoadConfig ==
    /\ pc = "new"
    /\ load_result' = load_config(config)
    /\ pc' = IF load_config(config).status = "raised" THEN "fatal" ELSE "loaded"
    /\ UNCHANGED <<config, scores_df, allocations_df, engineVars, alertVars,
                   score_result, dca, schedule, step, metrics>>

CommandSeries == {ShapeSeries("zigzag", 2), ShapeSeries("falling", 6)}

\* main, score_tickers_command: InvestmentScorer(config) scores on the
\* configuration load_config returned
ScoreTickersCommand ==
    /\ pc = "loaded"
    /\ \E series \in CommandSeries, sigmoid \in SigmoidValues :
        /\ ticker_data' = <<series>>
        /\ score_result' = ScoreTickerCall("InvestmentScorer", load_result.rows[1],
                                           1, series, sigmoid,
                                           CHOOSE std \in StdValues : TRUE)
    /\ pc' = "done"
    /\ UNCHANGED <<config, scores_df, allocations_df, engine_scorer, alert_scorer,
                   current_date, backtest_end, monthly_dates, month_idx, holdings,
                   total_invested, backtest_results, last_step, alerts,
                   load_result, dca, schedule, step, metrics>>

NextConfig ==
    \/ LoadConfig
    \/ ScoreTickersCommand

SpecConfig == InitConfig /\ [][NextConfig]_vars

-----------------------------------------------------------------------------
(* Claims about the configuration *)

LacksRequiredKey(cfg) == \E k \in RequiredKeys : k \notin DOMAIN cfg

WeightTotal(cfg) ==
    LET w == cfg.scoring_weights
    IN  RAdd(RAdd(w.price_position, w.momentum_decay),
             RAdd(w.volatility_adjusted, w.volume_confirmation))

Rejected == load_result.status = "raised" /\ score_result = NotCalled

\* C14 as stated: a configuration that lacks a required key, whose
\* scoring_weights do not sum to 1.0, or whose monthly_budget is not positive
\* is rejected: load_config raises and no scoring runs on it.
C14_InvalidConfigRejected ==
    pc # "new" =>
        ((\/ LacksRequiredKey(config)
          \/ WeightTotal(config) # One
          \/ config.monthly_budget <= 0) => Rejected)

\* C14 amended: the weights are rejected when their sum differs from 1.0 by
\* more than 0.01; a configuration that lacks a required key, whose
\* scoring_weights sum to less than 0.99 or more than 1.01, or whose
\* monthly_budget is not positive is rejected: load_config raises and no
\* scoring runs on it.
C14_InvalidConfigRejectedBeyondTolerance ==
    pc # "new" =>
        ((\/ LacksRequiredKey(config)
          \/ RLt(WeightTotal(config), R(99, 100))
          \/ RLt(R(101, 100), WeightTotal(config))
          \/ config.monthly_budget <= 0) => Rejected)

\* a complete configuration with weights summing to 1.0 rejected for its budget
C14_Witness ==
    /\ pc = "fatal"
    /\ ~LacksRequiredKey(config)
    /\ WeightTotal(config) = One
    /\ config.monthly_budget <= 0
    /\ load_result.status = "raised"

-----------------------------------------------------------------------------
(* Claims about the order of the allocations *)

\* C15: calculate_allocations preserves the order of the scores: for any two
\* returned allocations, score_i >= score_j implies allocation_pct_i >=
\* allocation_pct_j, so equal scores receive equal allocation_pct.
C15_OrderPreservingInScore ==
    allocations_df.status = "returned" =>
        LET rows == allocations_df.rows
        IN  \A i, j \in 1..Len(rows) :
                RLe(rows[j].score, rows[i].score) =>
                    RLe(rows[j].allocation_pct, rows[i].allocation_pct)

\* three allocations, two with equal scores and one with a lower score that
\* was lifted to the floor before the percentages were renormalized
C15_Witness ==
    /\ allocations_df.status = "returned"
    /\ Len(allocations_df.rows) = 3
    /\ RLt(One, SumSeq(FloorAdjusted(config, scores_df), "pct"))
    /\ \E i, j, k \in 1..3 :
          /\ i # j
          /\ allocations_df.rows[i].score = allocations_df.rows[j].score
          /\ RLt(allocations_df.rows[k].score, allocations_df.rows[i].score)
          /\ RLt(allocations_df.rows[k].allocation_pct,
                 allocations_df.rows[i].allocation_pct)

\* C16: the rows returned by calculate_allocations are ordered by nominal
\* allocation_amount, non-increasing from first to last.
C16_SortedByAmountDescending ==
    allocations_df.status = "returned" =>
        \A k \in 1..(Len(allocations_df.rows) - 1) :
            RLe(allocations_df.rows[k + 1].allocation_amount,
                allocations_df.rows[k].allocation_amount)

\* a returned batch whose first row came after its second row in the input
C16_Witness ==
    /\ allocations_df.status = "returned"
    /\ Len(allocations_df.rows) >= 2
    /\ allocations_df.rows[1].ticker = Instruments[2].ticker
    /\ allocations_df.rows[2].ticker = Instruments[1].ticker
    /\ RLt(allocations_df.rows[2].allocation_amount,
           allocations_df.rows[1].allocation_amount)

-----------------------------------------------------------------------------
(* SpecAllocPriced: calculate_allocations on frames whose prices are any    *)
(* number, zero and negative included                                       *)

AnyPrices == {R(-3, 1), Zero, R(7, 1)}
PricedScores == {R(3, 10), R(9, 10)}

PricedRows(i) ==
    { [ticker |-> Instruments[i].ticker, market |-> Instruments[i].market,
       score |-> s, current_price |-> p, error |-> FALSE]
        : s \in PricedScores, p \in AnyPrices }

RECURSIVE PricedRowSeqs(_)
PricedRowSeqs(n) ==
    IF n = 0 THEN {<<>>}
    ELSE {Append(s, r) : s \in PricedRowSeqs(n - 1), r \in PricedRows(n)}

PricedFrames ==
    { [rows |-> rs, has_error |-> TRUE]
        : rs \in UNION {PricedRowSeqs(n) : n \in 1..MaxRows} }

CalculateAllocationsPriced ==
    /\ pc = "idle"
    /\ \E df \in PricedFrames :
        /\ scores_df' = df
        /\ allocations_df' = calculate_allocations(config, df)
    /\ pc' = "allocated"
    /\ UNCHANGED <<config, engineVars, alertVars, otherVars>>

NextAllocPriced == CalculateAllocationsPriced

SpecAllocPriced == InitAlloc /\ [][NextAllocPriced]_vars

\* C17: no allocation returned by calculate_allocations has current_price
\* <= 0; a candidate priced at zero or below is excluded before the division.
C17_NoNonPositivePrice ==
    allocations_df.status = "returned" =>
        \A k \in 1..Len(allocations_df.rows) :
            RLt(Zero, allocations_df.rows[k].current_price)

-----------------------------------------------------------------------------
(* Claims about the accumulation of holdings *)

HeldShares(h, key) == IF key \in DOMAIN h THEN h[key].shares ELSE Zero

EventKeys == {HoldingKey(backtest_results[n].ticker, backtest_results[n].market)
                 : n \in 1..Len(backtest_results)}

HoldingsMatchEvents ==
    /\ EventKeys \subseteq DOMAIN holdings
    /\ \A key \in DOMAIN holdings :
          holdings[key].shares = SumSeq(EventsOf(key), "shares")
    /\ total_invested = SumSeq(backtest_results, "amount")

HoldingsOnlyGrow ==
    /\ DOMAIN holdings \subseteq DOMAIN holdings'
    /\ \A key \in DOMAIN holdings :
          RLe(holdings[key].shares, holdings'[key].shares)
    /\ RLe(total_invested, total_invested')

\* C18: during a backtest run a holding, once created, is never removed and
\* its shares never decrease; after every step each instrument's held shares
\* equal the sum of the shares of its recorded investment events, and total
\* invested equals the sum of the amounts of all recorded events.
C18_MonotonicAccumulation ==
    [](HoldingsMatchEvents) /\ [][HoldingsOnlyGrow]_vars

\* two instruments held, one of them bought in two different months
C18_Witness ==
    /\ Cardinality(DOMAIN holdings) >= 2
    /\ \E key \in DOMAIN holdings :
          LET events == EventsOf(key)
          IN  /\ Len(events) >= 2
              /\ events[1].date # events[2].date
              /\ RLt(events[1].shares, holdings[key].shares)

-----------------------------------------------------------------------------
(* BacktestEngine._simulate_dca_backtest *)

\* monthly_budget / total_tickers, or a budget split over the instruments
\* that have bars only
amount_per_ticker_with_data(cfg, td) ==
    LET total_tickers == Cardinality({i \in 1..Len(td) : Len(td[i]) > 0})
    IN  IF total_tickers > 0 THEN R(cfg.monthly_budget, total_tickers) ELSE Zero

amount_per_ticker(cfg, td) ==
    LET total_tickers == Len(td)
    IN  IF total_tickers > 0 THEN R(cfg.monthly_budget, total_tickers) ELSE Zero

\* if price and price > 0
PriceIsPositive(price) == price # NoPrice /\ price # Zero /\ RLt(Zero, price)

RECURSIVE DcaBuy(_, _, _, _, _)
\* the loops over ticker_data of one investment_date, from instrument i on;
\* acc is <<dca_holdings, total_dca_invested>>
DcaBuy(td, investment_date, amount, i, acc) ==
    IF i > Len(td) THEN acc
    ELSE LET price == get_price_at_date(td[i], investment_date)
             key == HoldingKey(Instruments[i].ticker, Instruments[i].market)
             h == acc[1]
         IN  IF PriceIsPositive(price)
             THEN LET shares == RDiv(amount, price)
                      bought == [k \in DOMAIN h \cup {key} |->
                                    IF k # key THEN h[k]
                                    ELSE IF key \in DOMAIN h
                                         THEN [shares |-> RAdd(h[key].shares, shares)]
                                         ELSE [shares |-> shares]]
                  IN  DcaBuy(td, investment_date, amount, i + 1,
                             <<bought, RAdd(acc[2], amount)>>)
             ELSE DcaBuy(td, investment_date, amount, i + 1, acc)

\* key.split("_", 1)
SplitKey(key) ==
    LET n == CHOOSE m \in 1..Len(key) :
                 key[m] = "_" /\ \A j \in 1..(m - 1) : key[j] # "_"
    IN  [ticker |-> SubSeq(key, 1, n - 1), market |-> SubSeq(key, n + 1, Len(key))]

\* ticker_data[market][ticker]: the entries filed under that market and ticker
Lookup(td, market, ticker) ==
    {i \in 1..Len(td) : Instruments[i].market = market /\ Instruments[i].ticker = ticker}

RECURSIVE DcaFinalValue(_, _, _, _)
\* the loop over dca_holdings.items()
DcaFinalValue(td, h, keys, final_date) ==
    IF keys = {} THEN Zero
    ELSE LET key == CHOOSE k \in keys : TRUE
             parts == SplitKey(key)
             i == CHOOSE n \in Lookup(td, parts.market, parts.ticker) : TRUE
             final_price == get_price_at_date(td[i], final_date)
             rest == DcaFinalValue(td, h, keys \ {key}, final_date)
         IN  IF final_price # NoPrice /\ final_price # Zero
             THEN RAdd(RMul(h[key].shares, final_price), rest)
             ELSE rest

DcaKeyError(td, h) ==
    \E key \in DOMAIN h :
        Lookup(td, SplitKey(key).market, SplitKey(key).ticker) = {}

-----------------------------------------------------------------------------
(* SpecDca: the DCA comparison run over a list of investment dates *)

DcaDates == <<<<2022, 6, 15>>, <<2022, 12, 15>>, <<2023, 2, 15>>, <<2023, 3, 15>>>>

\* backtest_results["date"].unique(): distinct dates in chronological order
InvestmentDateLists ==
    { dates \in UNION {[1..n -> 1..Len(DcaDates)] : n \in 1..MaxMonths} :
        \A n \in 1..(Len(dates) - 1) : dates[n] < dates[n + 1] }

InitDca ==
    /\ config = DefaultConfig
    /\ ticker_data \in TickerDatas
    /\ \E dates \in InvestmentDateLists :
          monthly_dates = [n \in 1..Len(dates) |-> DcaDates[dates[n]]]
    /\ pc = "metrics"
    /\ scores_df = EmptyFrame
    /\ allocations_df = NotCalled
    /\ engine_scorer = "InvestmentScorer"
    /\ current_date = NoDate
    /\ backtest_end = NoDate
    /\ month_idx = 0
    /\ holdings = NoHoldings
    /\ total_invested = Zero
    /\ backtest_results = <<>>
    /\ last_step = "none"
    /\ IdleAlerts
    /\ IdleOther

\* _simulate_dca_backtest up to the loop over investment_dates
SimulateDcaStart ==
    /\ pc = "metrics"
    /\ dca' = [status |-> "running", exc |-> "",
               investment_dates |-> monthly_dates, next |-> 1,
               amount_per_ticker |-> amount_per_ticker(config, ticker_data),
               dca_holdings |-> NoHoldings, total_dca_invested |-> Zero,
               final_value |-> Zero]
    /\ pc' = "dca"
    /\ UNCHANGED <<config, scores_df, allocations_df, engineVars, alertVars,
                   score_result, load_result, schedule, step, metrics>>

\* one iteration of: for investment_date in investment_dates
DcaInvestDate ==
    /\ pc = "dca"
    /\ dca.next <= Len(dca.investment_dates)
    /\ LET acc == DcaBuy(ticker_data, dca.investment_dates[dca.next],
                         dca.amount_per_ticker, 1,
                         <<dca.dca_holdings, dca.total_dca_invested>>)
       IN  dca' = [dca EXCEPT !.next = dca.next + 1, !.dca_holdings = acc[1],
                              !.total_dca_invested = acc[2]]
    /\ UNCHANGED <<config, scores_df, allocations_df, engineVars, alertVars, pc,
                   score_result, load_result, schedule, step, metrics>>

\* the final DCA portfolio value, at max(investment_dates)
DcaFinish ==
    /\ pc = "dca"
    /\ dca.next > Len(dca.investment_dates)
    /\ LET final_date == dca.investment_dates[Len(dca.investment_dates)]
       IN  dca' = IF DcaKeyError(ticker_data, dca.dca_holdings)
                  THEN [dca EXCEPT !.status = "raised", !.exc = "KeyError"]
                  ELSE [dca EXCEPT !.status = "returned",
                           !.final_value = DcaFinalValue(ticker_data, dca.dca_holdings,
                                                         DOMAIN dca.dca_holdings,
                                                         final_date)]
    /\ pc' = "done"
    /\ UNCHANGED <<config, scores_df, allocations_df, engineVars, alertVars,
                   score_result, load_result, schedule, step, metrics>>

NextDca ==
    \/ SimulateDcaStart
    \/ DcaInvestDate
    \/ DcaFinish

SpecDca == InitDca /\ [][NextDca]_vars

-----------------------------------------------------------------------------
(* Claims about the DCA comparison *)

\* instrument i has a bar dated at or before d
HasPriceAt(i, d) == \E n \in 1..Len(ticker_data[i]) : DateLe(ticker_data[i][n].date, d)

\* the close of the latest bar of instrument i dated at or before d
PriceAt(i, d) ==
    LET n == CHOOSE m \in 1..Len(ticker_data[i]) :
                 /\ DateLe(ticker_data[i][m].date, d)
                 /\ \A j \in 1..Len(ticker_data[i]) :
                       DateLe(ticker_data[i][j].date, d) => j <= m
    IN  ticker_data[i][n].close

\* the (date, instrument) pairs processed so far that had a price
FundedPairs ==
    {pair \in (1..(dca.next - 1)) \X (1..Len(ticker_data)) :
        HasPriceAt(pair[2], dca.investment_dates[pair[1]])}

RECURSIVE SharesBought(_, _, _)
\* sum over the funded pairs of instrument i of per / price
SharesBought(i, per, ns) ==
    IF ns = {} THEN Zero
    ELSE LET n == CHOOSE m \in ns : TRUE
         IN  RAdd(RDiv(per, PriceAt(i, dca.investment_dates[n])),
                  SharesBought(i, per, ns \ {n}))

\* C19: on each investment date the DCA run invests monthly_budget / T in
\* every one of the T configured instruments that has a price at or before
\* that date and omits the others without failing; total_dca_invested is
\* (monthly_budget / T) x the number of (date, instrument) pairs with a price
\* and is at most monthly_budget for each date.
C19_DcaEqualShares ==
    pc \in {"dca", "done"} =>
        LET T == Len(ticker_data)
            per == IF T = 0 THEN Zero ELSE R(config.monthly_budget, T)
        IN  /\ dca.status # "raised"
            /\ dca.total_dca_invested = RMul(per, R(Cardinality(FundedPairs), 1))
            /\ RLe(dca.total_dca_invested,
                   R(config.monthly_budget * (dca.next - 1), 1))
            /\ \A i \in 1..T :
                  LET key == HoldingKey(Instruments[i].ticker, Instruments[i].market)
                      ns == {n \in 1..(dca.next - 1) : <<n, i>> \in FundedPairs}
                  IN  IF ns = {} THEN key \notin DOMAIN dca.dca_holdings
                      ELSE /\ key \in DOMAIN dca.dca_holdings
                           /\ dca.dca_holdings[key].shares = SharesBought(i, per, ns)

\* a finished run over several dates in which one instrument had no price on
\* the first date, another had none at all, and a third was bought every time
C19_Witness ==
    /\ pc = "done"
    /\ dca.status = "returned"
    /\ Len(dca.investment_dates) >= 2
    /\ \E i, j, k \in 1..Len(ticker_data) :
          /\ ~HasPriceAt(i, dca.investment_dates[1])
          /\ HasPriceAt(i, dca.investment_dates[2])
          /\ Len(ticker_data[j]) = 0
          /\ HasPriceAt(k, dca.investment_dates[1])
    /\ RLt(Zero, dca.final_value)

-----------------------------------------------------------------------------
(* InvestmentAlertGenerator: the alert schedule *)

\* alert dates one call may collect
MaxAlertDates == 5

should_generate_alerts(alert_date) == alert_date[3] = 8

\* the 8th of the start month, whatever the start day
FirstAlertDateUnadjusted(start_date) == <<start_date[1], start_date[2], 8>>

\* start_date.replace(day=8), moved a month on when start_date.day > 8
FirstAlertDate(start_date) ==
    LET current == <<start_date[1], start_date[2], 8>>
    IN  IF start_date[3] > 8 THEN AddMonth(current) ELSE current

ScheduleStarts ==
    {<<2023, 10, 8>>, <<2023, 11, 1>>, <<2023, 11, 9>>, <<2023, 12, 31>>,
     <<2024, 1, 7>>, <<2024, 1, 30>>}
ScheduleEnds ==
    {<<2023, 11, 7>>, <<2023, 11, 8>>, <<2023, 12, 9>>, <<2024, 2, 7>>,
     <<2024, 2, 8>>, <<2024, 2, 29>>}

InitSchedule ==
    /\ config = DefaultConfig
    /\ pc = "idle"
    /\ \E start_date \in ScheduleStarts, end_date \in ScheduleEnds :
          schedule = [status |-> "called", start_date |-> start_date,
                      end_date |-> end_date, current_date |-> NoDate,
                      alert_dates |-> <<>>]
    /\ scores_df = EmptyFrame
    /\ allocations_df = NotCalled
    /\ IdleEngine
    /\ IdleAlerts
    /\ score_result = NotCalled
    /\ load_result = NotCalled
    /\ dca = NotCalled
    /\ step = NotCalled
    /\ metrics = NotCalled

\* get_alert_schedule_dates up to its loop
ScheduleStart ==
    /\ pc = "idle"
    /\ schedule' = [schedule EXCEPT !.current_date = FirstAlertDate(schedule.start_date)]
    /\ pc' = "schedule"
    /\ UNCHANGED <<config, scores_df, allocations_df, engineVars, alertVars,
                   score_result, load_result, dca, step, metrics>>

\* one iteration of: while current_date <= end_date
ScheduleAppend ==
    /\ pc = "schedule"
    /\ DateLe(schedule.current_date, schedule.end_date)
    /\ Len(schedule.alert_dates) < MaxAlertDates
    /\ schedule' = [schedule EXCEPT
                       !.alert_dates = Append(schedule.alert_dates, schedule.current_date),
                       !.current_date = AddMonth(schedule.current_date)]
    /\ UNCHANGED <<config, scores_df, allocations_df, engineVars, alertVars, pc,
                   score_result, load_result, dca, step, metrics>>

\* the loop ends and alert_dates is returned
ScheduleReturn ==
    /\ pc = "schedule"
    /\ ~DateLe(schedule.current_date, schedule.end_date)
    /\ schedule' = [schedule EXCEPT !.status = "returned"]
    /\ pc' = "done"
    /\ UNCHANGED <<config, scores_df, allocations_df, engineVars, alertVars,
                   score_result, load_result, dca, step, metrics>>

NextSchedule ==
    \/ ScheduleStart
    \/ ScheduleAppend
    \/ ScheduleReturn

SpecSchedule == InitSchedule /\ [][NextSchedule]_vars

CalendarDays ==
    {d \in (2023..2024) \X (1..12) \X (1..31) : d[3] <= DaysInMonth(d[1], d[2])}

\* C20: get_alert_schedule_dates(start, end) returns, in ascending order and
\* without duplicates, exactly the dates from start to end whose day of the
\* month is 8, and should_generate_alerts is true for exactly those dates of
\* the range.
C20_ScheduleIsEveryEighth ==
    (pc = "done" /\ schedule.status = "returned") =>
        LET dates == schedule.alert_dates
            in_range == {d \in CalendarDays : /\ DateLe(schedule.start_date, d)
                                              /\ DateLe(d, schedule.end_date)}
            returned == {dates[n] : n \in 1..Len(dates)}
        IN  /\ \A n \in 1..(Len(dates) - 1) : DateLt(dates[n], dates[n + 1])
            /\ returned = {d \in in_range : d[3] = 8}
            /\ \A d \in in_range : should_generate_alerts(d) <=> d \in returned

\* a schedule that starts after the 8th and runs over the turn of the year
C20_Witness ==
    /\ pc = "done"
    /\ schedule.status = "returned"
    /\ schedule.start_date[3] > 8
    /\ Len(schedule.alert_dates) >= 3
    /\ schedule.alert_dates[1][1] < schedule.alert_dates[3][1]

-----------------------------------------------------------------------------
(* SpecReversion: MeanReversionScorer.score_ticker called on one long series *)

\* bars of the longest series handed to the mean-reversion scorer
MaxReversionBars == 61

ReversionLengths == {1, 19, 20, 29, 30, 31, 59, 60, MaxReversionBars}

ReversionLookbacks == {30, 60, 90}

ReversionShapes ==
    {"flat", "dip", "plunge", "crash", "slide", "spike", "rising", "thin"}

\* bar i of a series of n bars: "dip", "plunge" and "crash" lose 8%, 16% and
\* 40% on the last bar, "slide" loses day after day down to a floor, "spike"
\* loses 12% on the last bar after ten bars at twice the earlier price,
\* "thin" trades little in its last ten bars
ReversionBar(shape, i, n) ==
    LET c == CASE shape = "flat" -> 50
               [] shape = "dip" -> IF i = n THEN 92
                                   ELSE IF i > n - 25 THEN 100 ELSE 10
               [] shape = "plunge" -> IF i = n THEN 84 ELSE 100
               [] shape = "crash" -> IF i = n THEN 60 ELSE 100
               [] shape = "slide" -> IF 200 - 3 * i > 40 THEN 200 - 3 * i ELSE 40
               [] shape = "spike" -> IF i = n THEN 88
                                     ELSE IF i >= n - 9 THEN 100 ELSE 50
               [] shape = "rising" -> 50 + i
               [] shape = "thin" -> 50
        v == IF shape = "thin" /\ i <= n - 10 THEN 10 ELSE 1
    IN  [date |-> <<2023, 1 + ((i - 1) \div 28), 1 + ((i - 1) % 28)>>,
         close |-> R(c, 1), adjusted_close |-> R(c, 1),
         high |-> R(c + 1, 1), low |-> R(c - 1, 1), volume |-> R(v, 1)]

ReversionSeries ==
    { [i \in 1..n |-> ReversionBar(shape, i, n)]
        : shape \in ReversionShapes, n \in ReversionLengths }

ReversionConfigs ==
    { Ext(DefaultConfig,
          [lookback_days |-> lb, scoring_weights |-> DefaultWeights,
           supported_markets |-> {<<"U", "S">>, <<"U", "K">>},
           tickers |-> Instruments])
        : lb \in ReversionLookbacks }

InitReversion ==
    /\ config \in ReversionConfigs
    /\ pc = "idle"
    /\ scores_df = EmptyFrame
    /\ allocations_df = NotCalled
    /\ IdleEngine
    /\ IdleAlerts
    /\ IdleOther

ScoreReversion ==
    /\ pc = "idle"
    /\ \E price_data \in ReversionSeries, std \in StdValues :
        /\ ticker_data' = <<price_data>>
        /\ score_result' =
              Ext(ScoreTickerCall("MeanReversionScorer", config, 1, price_data,
                                  One, std),
                  [scorer |-> "MeanReversionScorer", price_data |-> "bars"])
    /\ pc' = "scored"
    /\ UNCHANGED <<config, scores_df, allocations_df, engine_scorer, alert_scorer,
                   current_date, backtest_end, monthly_dates, month_idx, holdings,
                   total_invested, backtest_results, last_step, alerts,
                   load_result, dca, schedule, step, metrics>>

NextReversion == ScoreReversion

SpecReversion == InitReversion /\ [][NextReversion]_vars

-----------------------------------------------------------------------------
(* Claims about the mean-reversion scorer *)

ReversionReturned ==
    /\ pc = "scored"
    /\ score_result.scorer = "MeanReversionScorer"
    /\ score_result.price_data = "bars"
    /\ score_result.status = "returned"

\* C21: the mean-reversion final_score equals (0.7 x oversold_score + 0.2 x
\* quality_filter + 0.1 x volatility_bonus) multiplied again by
\* quality_filter; so final_score <= quality_filter, final_score = 0
\* whenever quality_filter = 0, and final_score is in [0,1] whenever the
\* three components are.
C21_ReversionFinalScore ==
    ReversionReturned =>
        LET c == score_result.components
            weighted == RAdd(RMul(R(7, 10), c.oversold_score),
                             RAdd(RMul(R(2, 10), c.quality_filter),
                                  RMul(R(1, 10), c.volatility_bonus)))
        IN  /\ c.final_score = RMul(weighted, c.quality_filter)
            /\ ScoredRow.score = c.final_score
            /\ RLe(c.final_score, c.quality_filter)
            /\ c.quality_filter = Zero => c.final_score = Zero
            /\ (/\ InUnitInterval(c.oversold_score)
                /\ InUnitInterval(c.quality_filter)
                /\ InUnitInterval(c.volatility_bonus)) => InUnitInterval(c.final_score)

\* a window whose quality filter is a proper fraction and cuts a positive
\* weighted sum
C21_Witness ==
    /\ ReversionReturned
    /\ RLt(Zero, score_result.components.quality_filter)
    /\ RLt(score_result.components.quality_filter, One)
    /\ RLt(Zero, score_result.components.oversold_score)
    /\ RLt(Zero, score_result.components.volatility_bonus)
    /\ RLt(Zero, score_result.components.final_score)

-----------------------------------------------------------------------------
(* Claims about flat windows *)

\* the window score_ticker hands to calculate_final_score
ScoredWindow == TailRows(ticker_data[1], config.lookback_days)

\* open = high = low = close, the same on every bar
IsFlat(df) ==
    \A i \in 1..Len(df) :
        /\ df[i].close = df[1].close
        /\ df[i].high = df[1].close
        /\ df[i].low = df[1].close

\* C22: for a flat-price series of at least 2 bars (open = high = low = close
\* constant), calculate_price_position_score returns exactly 0.5 and raises
\* no division error.
C22_FlatPricePositionIsHalf ==
    (/\ pc = "scored"
     /\ score_result.scorer = "InvestmentScorer"
     /\ score_result.price_data = "bars"
     /\ Len(ScoredWindow) >= 2
     /\ IsFlat(ScoredWindow)) =>
        /\ calculate_price_position_score(ScoredWindow) = R(1, 2)
        /\ score_result.status = "returned" =>
              score_result.components.price_position = R(1, 2)

\* a flat window of several bars was scored and its result returned
C22_Witness ==
    /\ pc = "scored"
    /\ score_result.scorer = "InvestmentScorer"
    /\ score_result.price_data = "bars"
    /\ score_result.status = "returned"
    /\ Len(ScoredWindow) >= 3
    /\ IsFlat(ScoredWindow)
    /\ score_result.components.price_position = R(1, 2)

-----------------------------------------------------------------------------
(* SpecStep: the month iterations of run_monthly_backtest over dated series; *)
(* the month's scores reach the allocator in a frame that has the "error"    *)
(* column, the frames calculate_allocations returns a table for              *)

StepShapes == {"zigzag", "falling"}
StepLengths == {9, 11, MaxBars}

\* a series whose first bar is dated 2023-01-03
LateSeries(shape, n) ==
    [i \in 1..n |-> [ShapeBar(shape, i) EXCEPT !.date = <<2023, 1, i + 2>>]]

\* daily bars dated 2023-01-01, 2023-01-02, ..., or from 2023-01-03 on
StepSeries ==
    {ShapeSeries(shape, n) : shape \in StepShapes, n \in StepLengths}
        \cup {LateSeries("zigzag", MaxBars)}

StepTickerDatas == [1..2 -> StepSeries]

StepDays == {9, 10, 11, 12, 14}

\* two month dates in increasing order
StepDateLists ==
    { << <<2023, 1, days[1]>>, <<2023, 1, days[2]>> >>
        : days \in {p \in StepDays \X StepDays : p[1] < p[2]} }

StepConfigs ==
    { Ext(DefaultConfig,
          [lookback_days |-> lb, momentum_decay_factor |-> R(1, 2),
           scoring_weights |-> [price_position |-> R(1, 2), momentum_decay |-> Zero,
                                volatility_adjusted |-> R(1, 2),
                                volume_confirmation |-> Zero]])
        : lb \in {LookbackDays, LookbackDays + 1} }

\* monthly_ticker_data of one month: instrument -> month_data
monthly_ticker_data(td, month_date, lookback_days) ==
    [i \in {n \in 1..Len(td) :
              Len(get_data_up_to_date(td[n], month_date, lookback_days)) >= MinBars}
        |-> get_data_up_to_date(td[i], month_date, lookback_days)]

\* what InvestmentScorer.calculate_final_score returns for each month_data
MonthScores(cfg, td, month_date, sigmoid) ==
    [i \in 1..Len(td) |->
        calculate_final_score(cfg,
            TailRows(get_data_up_to_date(td[i], month_date, cfg.lookback_days),
                     cfg.lookback_days),
            sigmoid).score]

\* current_price of every holding: get_price_at_date(ticker_data[market][ticker], month_date)
MarkPrices(td, h, month_date) ==
    [key \in DOMAIN h |->
        LET parts == SplitKey(key)
            i == CHOOSE n \in Lookup(td, parts.market, parts.ticker) : TRUE
        IN  get_price_at_date(td[i], month_date)]

RECURSIVE ValueOf(_, _, _)
\* current_portfolio_value: if current_price, add shares * current_price
ValueOf(h, prices, keys) ==
    IF keys = {} THEN Zero
    ELSE LET key == CHOOSE k \in keys : TRUE
             rest == ValueOf(h, prices, keys \ {key})
         IN  IF prices[key] # NoPrice /\ prices[key] # Zero
             THEN RAdd(RMul(h[key].shares, prices[key]), rest)
             ELSE rest

current_portfolio_value(td, h, month_date) ==
    ValueOf(h, MarkPrices(td, h, month_date), DOMAIN h)

StepLocals(td, h, month_date, lookback_days) ==
    [status |-> "returned", exc |-> "", rows |-> <<>>,
     month_date |-> month_date,
     monthly_ticker_data |-> monthly_ticker_data(td, month_date, lookback_days),
     prices |-> MarkPrices(td, h, month_date),
     portfolio_value |-> current_portfolio_value(td, h, month_date)]

InitStep ==
    /\ config \in StepConfigs
    /\ ticker_data \in StepTickerDatas
    /\ monthly_dates \in StepDateLists
    /\ pc = "months"
    /\ month_idx = 1
    /\ scores_df = EmptyFrame
    /\ allocations_df = NotCalled
    /\ engine_scorer = "InvestmentScorer"
    /\ current_date = NoDate
    /\ backtest_end = NoDate
    /\ holdings = NoHoldings
    /\ total_invested = Zero
    /\ backtest_results = <<>>
    /\ last_step = "none"
    /\ IdleAlerts
    /\ IdleOther

\* the month from the allocator's table on: purchases and mark-to-market
StepAllocated(month_date, frame, result) ==
    /\ scores_df' = frame
    /\ allocations_df' = result
    /\ SimulatePurchases(month_date, result.rows)
    /\ step' = StepLocals(ticker_data, holdings', month_date, config.lookback_days)
    /\ last_step' = IF Len(result.rows) = 0 THEN "empty" ELSE "invested"

\* the month from scores_data on
StepScored(month_date, scores_data) ==
    IF Len(scores_data) = 0
    THEN /\ last_step' = "skipped"
         /\ UNCHANGED <<scores_df, allocations_df, holdings, total_invested,
                        backtest_results, step>>
    ELSE StepAllocated(month_date, [rows |-> scores_data, has_error |-> TRUE],
                       calculate_allocations(config, [rows |-> scores_data,
                                                      has_error |-> TRUE]))

\* one iteration of: for month_date in monthly_dates; the windows are
\* shorter than volatility_window, so the sigmoid is never evaluated
StepMonth ==
    /\ pc = "months"
    /\ month_idx <= Len(monthly_dates)
    /\ StepScored(monthly_dates[month_idx],
                  ScoresData(ticker_data, monthly_dates[month_idx], config.lookback_days,
                             MonthScores(config, ticker_data, monthly_dates[month_idx],
                                         One),
                             1))
    /\ month_idx' = month_idx + 1
    /\ UNCHANGED <<config, engine_scorer, alert_scorer, ticker_data, pc, current_date,
                   backtest_end, monthly_dates, alerts, score_result, load_result,
                   dca, schedule, metrics>>

\* "Recreate final holdings": the update for one event
RecreateHolding(h, row) ==
    LET key == HoldingKey(row.ticker, row.market)
    IN  [k \in DOMAIN h \cup {key} |->
            IF k # key THEN h[k]
            ELSE IF key \in DOMAIN h
                 THEN LET shares == RAdd(h[key].shares, row.shares)
                          total_cost == RAdd(RMul(shares, h[key].avg_price), row.amount)
                      IN  [shares |-> shares,
                           avg_price |-> IF shares = Zero THEN NaN
                                         ELSE RDiv(total_cost, shares)]
                 ELSE [shares |-> row.shares, avg_price |-> row.price]]

RECURSIVE RecreateHoldings(_, _)
\* for _, row in backtest_results.iterrows()
RecreateHoldings(h, rows) ==
    IF rows = <<>> THEN h ELSE RecreateHoldings(RecreateHolding(h, Head(rows)), Tail(rows))

\* max(backtest_results["date"])
FinalDate(rows) ==
    CHOOSE d \in {rows[n].date : n \in 1..Len(rows)} :
        \A n \in 1..Len(rows) : DateLe(rows[n].date, d)

\* the metrics computed from the recreated holdings
MetricsOf(rows, h, value) ==
    [status |-> "returned", exc |-> "", rows |-> rows,
     holdings |-> h,
     total_invested |-> SumSeq(rows, "amount"),
     final_portfolio_value |-> value,
     total_return |-> RSub(value, SumSeq(rows, "amount")),
     number_of_investments |-> Len(rows)]

\* calculate_performance_metrics; an empty table returns the error entry only
calculate_performance_metrics(rows, td) ==
    IF Len(rows) = 0 THEN Raised("No backtest results to analyze")
    ELSE IF DcaKeyError(td, RecreateHoldings(NoHoldings, rows)) THEN Raised("KeyError")
    ELSE MetricsOf(rows, RecreateHoldings(NoHoldings, rows),
                   current_portfolio_value(td, RecreateHoldings(NoHoldings, rows),
                                           FinalDate(rows)))

\* backtest_command: the metrics of the table run_monthly_backtest returned
CalculatePerformanceMetrics ==
    /\ pc = "done"
    /\ metrics' = calculate_performance_metrics(backtest_results, ticker_data)
    /\ pc' = "analysed"
    /\ UNCHANGED <<config, scores_df, allocations_df, engine_scorer, alert_scorer,
                   ticker_data, current_date, backtest_end, monthly_dates, month_idx,
                   holdings, total_invested, backtest_results, last_step, alerts,
                   score_result, load_result, dca, schedule, step>>

NextStep ==
    \/ StepMonth
    \/ BacktestFinish
    \/ CalculatePerformanceMetrics

SpecStep == InitStep /\ [][NextStep]_vars

-----------------------------------------------------------------------------
(* Claims about the bars a step reads *)

\* the bars of instrument i dated no later than d, counted
BarsUpTo(i, d) ==
    Cardinality({n \in 1..Len(ticker_data[i]) : DateLe(ticker_data[i][n].date, d)})

Min(a, b) == IF a < b THEN a ELSE b

\* the most recent min(lookback_days, k) of the k bars dated no later than d
RecentBars(i, d) ==
    LET k == BarsUpTo(i, d)
        m == Min(config.lookback_days, k)
    IN  [j \in 1..m |-> ticker_data[i][k - m + j]]

\* close of the latest bar dated no later than d
LatestClose(i, d) == ticker_data[i][BarsUpTo(i, d)].close

InstrumentOf(ticker, market) ==
    CHOOSE i \in 1..Len(ticker_data) :
        Instruments[i].ticker = ticker /\ Instruments[i].market = market

\* C23: no look-ahead.  At a step dated D the scoring window of an instrument
\* is its most recent min(lookback_days, k) bars among the k bars dated no
\* later than D; the purchase price and the mark-to-market price are the
\* close of the latest bar dated no later than D; an instrument with fewer
\* than 10 such bars is not scored at that step.
C23_NoLookAhead ==
    /\ \A n \in 1..Len(backtest_results) :
          LET e == backtest_results[n]
          IN  e.price = LatestClose(InstrumentOf(e.ticker, e.market), e.date)
    /\ step # NotCalled =>
          LET d == step.month_date
              scored == DOMAIN step.monthly_ticker_data
          IN  /\ scored = {i \in 1..Len(ticker_data) : BarsUpTo(i, d) >= 10}
              /\ \A i \in scored : step.monthly_ticker_data[i] = RecentBars(i, d)
              /\ {InstrumentOf(scores_df.rows[r].ticker, scores_df.rows[r].market)
                    : r \in 1..Len(scores_df.rows)} = scored
              /\ \A r \in 1..Len(scores_df.rows) :
                    LET row == scores_df.rows[r]
                        i == InstrumentOf(row.ticker, row.market)
                    IN  /\ row.current_price = LatestClose(i, d)
                        /\ \E sigmoid \in SigmoidValues :
                              row.score =
                                  calculate_final_score(config, RecentBars(i, d),
                                                        sigmoid).score
              /\ \A key \in DOMAIN holdings :
                    LET parts == SplitKey(key)
                    IN  step.prices[key] =
                            LatestClose(InstrumentOf(parts.ticker, parts.market), d)

\* a step bought an instrument that has more than lookback_days bars up to
\* the step and bars dated after it, while another instrument had bars but
\* too few of them for the step
C23_Witness ==
    /\ step # NotCalled
    /\ last_step = "invested"
    /\ \E i \in DOMAIN step.monthly_ticker_data :
          /\ BarsUpTo(i, step.month_date) < Len(ticker_data[i])
          /\ BarsUpTo(i, step.month_date) > config.lookback_days
          /\ HoldingKey(Instruments[i].ticker, Instruments[i].market) \in DOMAIN holdings
    /\ \E i \in 1..Len(ticker_data) :
          /\ i \notin DOMAIN step.monthly_ticker_data
          /\ BarsUpTo(i, step.month_date) > 0
    /\ step.portfolio_value # Zero

-----------------------------------------------------------------------------
(* SpecFair: the backtest engine, every enabled step eventually taken *)

SpecFair == Init /\ [][Next]_vars /\ WF_vars(Next)

-----------------------------------------------------------------------------
(* Claims about the step dates *)

\* first usable date of a series: the bar after lookback_days bars, or the
\* last bar of a shorter series
SeriesStart(df) ==
    IF Len(df) > config.lookback_days THEN df[config.lookback_days + 1].date
    ELSE df[Len(df)].date

WithBars == {i \in 1..Len(ticker_data) : Len(ticker_data[i]) > 0}

\* the latest of the series' first usable dates
AvailableStart ==
    CHOOSE d \in {SeriesStart(ticker_data[i]) : i \in WithBars} :
        \A i \in WithBars : ~DateLt(d, SeriesStart(ticker_data[i]))

\* the latest date every series with bars still covers
LatestCommonDate ==
    CHOOSE d \in {ticker_data[i][Len(ticker_data[i])].date : i \in WithBars} :
        \A i \in WithBars : ~DateLt(ticker_data[i][Len(ticker_data[i])].date, d)

ExpectedStart ==
    IF WithBars = {} \/ DateLt(AvailableStart, config.backtest_start_date)
    THEN config.backtest_start_date ELSE AvailableStart

ExpectedEnd ==
    IF WithBars = {} \/ DateLt(config.backtest_end_date, LatestCommonDate)
    THEN config.backtest_end_date ELSE LatestCommonDate

DatesGenerated == pc \in {"months", "raised", "done"}

StepDatesInRange ==
    pc \in {"dates", "months", "raised", "done"} =>
        /\ \A k \in 1..Len(monthly_dates) :
              /\ ~DateLt(monthly_dates[k], ExpectedStart)
              /\ ~DateLt(ExpectedEnd, monthly_dates[k])
              /\ k > 1 => DateLt(monthly_dates[k - 1], monthly_dates[k])
        /\ Len(monthly_dates) > 0 => monthly_dates[1] = ExpectedStart
        /\ (DatesGenerated /\ ~DateLt(ExpectedEnd, ExpectedStart)) =>
              Len(monthly_dates) > 0
        /\ (DatesGenerated /\ DateLt(ExpectedEnd, ExpectedStart)) =>
              /\ monthly_dates = <<>>
              /\ pc = "done"
              /\ backtest_results = <<>>
              /\ last_step = "none"

DateLoopAdvances ==
    (pc = "dates" /\ pc' = "dates") => DateLt(current_date, current_date')

\* C24: the step dates of run_monthly_backtest are strictly increasing, begin
\* at max(configured start, available start) and never exceed
\* min(configured end, latest common date); the date loop terminates; when
\* the start is after the end no step is processed and the result is empty.
C24_StepDates ==
    /\ []StepDatesInRange
    /\ [][DateLoopAdvances]_vars
    /\ (pc = "dates") ~> (pc # "dates")

\* the dates began at an available start later than the configured one and
\* the loop stopped because the next date passed the end
C24_Witness ==
    /\ DatesGenerated
    /\ Len(monthly_dates) >= 2
    /\ WithBars # {}
    /\ monthly_dates[1] = AvailableStart
    /\ DateLt(config.backtest_start_date, AvailableStart)
    /\ ~DateLe(current_date, backtest_end)

-----------------------------------------------------------------------------
(* Claims about the alert limit *)

\* the allocations that become alert messages: actual_amount > 0
Survivors == SelectSeq(allocations_df.rows, LAMBDA r : RLt(Zero, r.actual_amount))

AlertsLimited ==
    /\ pc = "done"
    /\ alerts.status = "returned"
    /\ allocations_df.status = "returned"
    /\ Len(Survivors) > config.max_alerts_per_period

-----------------------------------------------------------------------------
(* SpecScoredAlerts: generate_alerts on the scores the configured scorer     *)
(* computes for the series                                                   *)

ScoredAlertSeries(method) ==
    IF method = "reversion"
    THEN {NoBars} \cup { [i \in 1..n |-> ReversionBar("dip", i, n)]
                           : n \in {29, MaxReversionBars} }
    ELSE {NoBars} \cup { ShapeSeries(shape, n)
                           : shape \in {"zigzag", "falling"}, n \in {1, MaxBars} }

ScoredAlertConfigs ==
    { Ext([DefaultConfig EXCEPT !.scoring_method = sm, !.alert_threshold = th,
                                !.lookback_days = lb],
          [momentum_decay_factor |-> R(1, 2),
           scoring_weights |-> [price_position |-> R(1, 2), momentum_decay |-> Zero,
                                volatility_adjusted |-> R(1, 2),
                                volume_confirmation |-> Zero]])
        : sm \in ScoringMethods, th \in {Zero, R(3, 10)}, lb \in {LookbackDays, 90} }

RECURSIVE ScoreTickerCalls(_, _, _, _, _, _)
\* the score_ticker calls of the loop over ticker_data, from instrument i on
ScoreTickerCalls(scorer, cfg, td, sigmoid, std, i) ==
    IF i > Len(td) THEN <<>>
    ELSE <<ScoreTickerCall(scorer, cfg, i, td[i], sigmoid, std)>>
         \o ScoreTickerCalls(scorer, cfg, td, sigmoid, std, i + 1)

\* score_multiple_tickers over the results of its score_ticker calls; an
\* exception of a call ends the loop
ScoredFrom(scorer, cfg, td, calls) ==
    LET failed == {i \in 1..Len(td) : calls[i].status = "raised"}
    IN  IF failed # {}
        THEN Raised(calls[CHOOSE i \in failed : \A j \in failed : i <= j].exc)
        ELSE score_multiple_tickers(scorer, td, cfg.lookback_days,
                                    [i \in 1..Len(td) |-> calls[i].rows[1].score])

score_multiple_tickers_scored(scorer, cfg, td, sigmoid, std) ==
    ScoredFrom(scorer, cfg, td, ScoreTickerCalls(scorer, cfg, td, sigmoid, std, 1))

InitScoredAlerts ==
    /\ config \in ScoredAlertConfigs
    /\ ticker_data \in [1..3 -> ScoredAlertSeries(config.scoring_method)]
    /\ pc = "new"
    /\ scores_df = EmptyFrame
    /\ allocations_df = NotCalled
    /\ engine_scorer = "unset"
    /\ current_date = NoDate
    /\ backtest_end = NoDate
    /\ monthly_dates = <<>>
    /\ month_idx = 0
    /\ holdings = NoHoldings
    /\ total_invested = Zero
    /\ backtest_results = <<>>
    /\ last_step = "none"
    /\ IdleAlerts
    /\ IdleOther

\* generate_alerts from the scored frame on
AlertsFrom(scored) ==
    /\ scores_df' = [rows |-> scored.rows, has_error |-> HasErrorColumn(scored.rows)]
    /\ allocations_df' =
          IF scored.status = "returned"
             /\ Len(AlertCandidates(config, scored.rows)) > 0
          THEN AlertAllocations(config, scored)
          ELSE NotCalled
    /\ alerts' = generate_alerts(config, scored)

GenerateScoredAlerts ==
    /\ pc = "ready"
    /\ \E sigmoid \in IF alert_scorer = "InvestmentScorer" THEN SigmoidValues ELSE {One},
          std \in IF alert_scorer = "MeanReversionScorer" THEN StdValues ELSE {One} :
        AlertsFrom(score_multiple_tickers_scored(alert_scorer, config, ticker_data,
                                                 sigmoid, std))
    /\ pc' = "done"
    /\ UNCHANGED <<config, engine_scorer, alert_scorer, ticker_data, current_date,
                   backtest_end, monthly_dates, month_idx, holdings, total_invested,
                   backtest_results, last_step>>
    /\ UNCHANGED otherVars

NextScoredAlerts ==
    \/ InvestmentAlertGeneratorInit
    \/ GenerateScoredAlerts

SpecScoredAlerts == InitScoredAlerts /\ [][NextScoredAlerts]_vars

-----------------------------------------------------------------------------
(* Claims about windows with too few bars *)

\* the window of instrument i has bars, but fewer than the scorer needs
TooFewBars(i) ==
    LET window == TailRows(ticker_data[i], config.lookback_days)
    IN  /\ Len(window) > 0
        /\ Len(window) < (IF alert_scorer = "MeanReversionScorer" THEN 30 ELSE 2)

RowsOf(rows, i) ==
    {k \in 1..Len(rows) : rows[k].ticker = Instruments[i].ticker
                          /\ rows[k].market = Instruments[i].market}

\* C26: an instrument whose window has too few bars (fewer than 2 under the
\* multi-factor variant, fewer than 30 under the mean-reversion variant) gets
\* a result with score exactly 0 and no exception, and the allocator gives
\* it no allocation in that period.
C26_TooFewBarsScoreZero ==
    (pc = "done" /\ \E i \in 1..Len(ticker_data) : TooFewBars(i)) =>
        /\ alerts.exc \notin {"KeyError", "IndexError"}
        /\ \A i \in 1..Len(ticker_data) :
              TooFewBars(i) =>
                  /\ RowsOf(scores_df.rows, i) # {}
                  /\ \A k \in RowsOf(scores_df.rows, i) :
                        /\ scores_df.rows[k].score = Zero
                        /\ ~scores_df.rows[k].error
                  /\ RowsOf(allocations_df.rows, i) = {}
                  /\ RowsOf(alerts.rows, i) = {}

\* a zero-score row of a short window went through the allocator, which
\* funded another instrument
C26_Witness ==
    /\ pc = "done"
    /\ config.alert_threshold = Zero
    /\ allocations_df.status = "returned"
    /\ Len(allocations_df.rows) > 0
    /\ \E i \in 1..Len(ticker_data) :
          /\ TooFewBars(i)
          /\ Len(ticker_data[i]) > 2
          /\ \A k \in RowsOf(scores_df.rows, i) : scores_df.rows[k].score = Zero

-----------------------------------------------------------------------------
(* Claims about the table of events *)

\* C27: the holdings calculate_performance_metrics rebuilds from the event
\* table equal, for every instrument, the holdings run_monthly_backtest
\* accumulated while producing those events: same cumulative shares and same
\* weighted-average cost.
C27_RebuiltHoldingsEqual ==
    (pc = "analysed" /\ metrics.status = "returned") =>
        /\ DOMAIN metrics.holdings = DOMAIN holdings
        /\ \A key \in DOMAIN holdings :
              /\ metrics.holdings[key].shares = holdings[key].shares
              /\ metrics.holdings[key].avg_price = holdings[key].avg_price

\* the part of C27 that holds: the rebuilt shares are the accumulated shares
C27_RebuiltSharesEqual ==
    (pc = "analysed" /\ metrics.status = "returned") =>
        /\ DOMAIN metrics.holdings = DOMAIN holdings
        /\ \A key \in DOMAIN holdings :
              metrics.holdings[key].shares = holdings[key].shares

\* the events of one step date up to and including event n
SameStepUpTo(n) ==
    {m \in 1..n : backtest_results[m].date = backtest_results[n].date}

RECURSIVE AmountOver(_)
AmountOver(ns) ==
    IF ns = {} THEN Zero
    ELSE LET n == CHOOSE m \in ns : TRUE
         IN  RAdd(backtest_results[n].amount, AmountOver(ns \ {n}))

-----------------------------------------------------------------------------
(* SpecKeys: one purchase of each of two named instruments, then the         *)
(* valuation of the holdings, as a month of run_monthly_backtest does        *)

\* tickers and markets, with and without an underscore
Names == {<<"A">>, <<"B">>, <<"A", "_", "B">>, <<"B", "_", "A">>}

\* ticker_data[market][ticker] = df, as entries [ticker, market, bars]; a
\* dictionary holds one entry for a (market, ticker) pair
NamedTickerDatas ==
    { td \in { << [ticker |-> t1, market |-> m1, bars |-> ShapeSeries("zigzag", 1)],
                  [ticker |-> t2, market |-> m2, bars |-> ShapeSeries("zigzag", 2)] >>
                 : t1 \in Names, m1 \in Names, t2 \in Names, m2 \in Names } :
        td[1].ticker # td[2].ticker \/ td[1].market # td[2].market }

\* ticker_data[market][ticker] for the decoded key
NamedLookup(td, market, ticker) ==
    {n \in 1..Len(td) : td[n].market = market /\ td[n].ticker = ticker}

NamedKeyError(td, h) ==
    \E key \in DOMAIN h :
        NamedLookup(td, SplitKey(key).market, SplitKey(key).ticker) = {}

\* get_price_at_date(ticker_data[market][ticker], month_date) of every holding
NamedMarkPrices(td, h, month_date) ==
    [key \in DOMAIN h |->
        LET parts == SplitKey(key)
            n == CHOOSE i \in NamedLookup(td, parts.market, parts.ticker) : TRUE
        IN  get_price_at_date(td[n].bars, month_date)]

\* the allocation rows of the month: one purchase of each instrument
NamedAllocations(td) ==
    [n \in 1..Len(td) |->
        [ticker |-> td[n].ticker, market |-> td[n].market, score |-> One,
         shares |-> R(n, 1),
         current_price |-> td[n].bars[Len(td[n].bars)].close,
         actual_amount |-> RMul(R(n, 1), td[n].bars[Len(td[n].bars)].close)]]

\* the valuation loop over holdings.items()
NamedValuation(td, h, month_date) ==
    IF NamedKeyError(td, h) THEN Raised("KeyError")
    ELSE [status |-> "returned", exc |-> "", rows |-> <<>>,
          month_date |-> month_date,
          prices |-> NamedMarkPrices(td, h, month_date),
          portfolio_value |-> ValueOf(h, NamedMarkPrices(td, h, month_date), DOMAIN h)]

InitKeys ==
    /\ config = DefaultConfig
    /\ ticker_data \in NamedTickerDatas
    /\ monthly_dates = << <<2023, 1, 15>> >>
    /\ pc = "months"
    /\ month_idx = 1
    /\ scores_df = EmptyFrame
    /\ allocations_df = NotCalled
    /\ engine_scorer = "InvestmentScorer"
    /\ current_date = NoDate
    /\ backtest_end = NoDate
    /\ holdings = NoHoldings
    /\ total_invested = Zero
    /\ backtest_results = <<>>
    /\ last_step = "none"
    /\ IdleAlerts
    /\ IdleOther

\* purchases and valuation of one month
KeyedMonth ==
    /\ pc = "months"
    /\ month_idx <= Len(monthly_dates)
    /\ allocations_df' = Returned(NamedAllocations(ticker_data))
    /\ SimulatePurchases(monthly_dates[month_idx], NamedAllocations(ticker_data))
    /\ step' = NamedValuation(ticker_data, holdings', monthly_dates[month_idx])
    /\ pc' = IF step'.status = "raised" THEN "raised" ELSE pc
    /\ last_step' = IF step'.status = "raised" THEN "raised" ELSE "invested"
    /\ month_idx' = month_idx + 1
    /\ UNCHANGED <<config, scores_df, engine_scorer, alert_scorer, ticker_data,
                   current_date, backtest_end, monthly_dates, alerts, score_result,
                   load_result, dca, schedule, metrics>>

NextKeys == KeyedMonth

SpecKeys == InitKeys /\ [][NextKeys]_vars

-----------------------------------------------------------------------------
(* Claims about the holdings key *)

KeyOf(n) == HoldingKey(ticker_data[n].ticker, ticker_data[n].market)

\* C28: the holdings key built from (ticker, market) is injective and decodes
\* back to the same (ticker, market) for every instrument, tickers and
\* markets that contain an underscore included, so the valuations look up the
\* price series of exactly the instrument that was bought.
C28_KeyRoundTrip ==
    last_step # "none" =>
        /\ \A n, m \in 1..Len(ticker_data) : KeyOf(n) = KeyOf(m) => n = m
        /\ \A n \in 1..Len(ticker_data) :
              /\ SplitKey(KeyOf(n)).ticker = ticker_data[n].ticker
              /\ SplitKey(KeyOf(n)).market = ticker_data[n].market
              /\ step.status = "returned"
              /\ step.prices[KeyOf(n)] =
                    ticker_data[n].bars[Len(ticker_data[n].bars)].close

NoUnderscore(name) == \A k \in 1..Len(name) : name[k] # "_"

\* the part of C28 that holds: with no underscore in any ticker the keys are
\* distinct, decode back, and the valuation reads the instrument's own series
C28_KeyRoundTripPlainTickers ==
    (last_step # "none" /\ \A n \in 1..Len(ticker_data) : NoUnderscore(ticker_data[n].ticker)) =>
        /\ \A n, m \in 1..Len(ticker_data) : KeyOf(n) = KeyOf(m) => n = m
        /\ \A n \in 1..Len(ticker_data) :
              /\ SplitKey(KeyOf(n)).ticker = ticker_data[n].ticker
              /\ SplitKey(KeyOf(n)).market = ticker_data[n].market
              /\ step.status = "returned"
              /\ step.prices[KeyOf(n)] =
                    ticker_data[n].bars[Len(ticker_data[n].bars)].close

-----------------------------------------------------------------------------
(* Claims about the allocated total *)

\* C29: allocation_pct sums to exactly 1.0 and allocation_amount sums to the
\* full budget for every non-empty result, also when the adaptive floor of
\* 80% / N is in force; a single candidate gets allocation_pct 1.0 and an
\* actual_amount equal to the budget up to the rounding of its shares.
C29_FullBudgetAllocated ==
    (allocations_df.status = "returned" /\ Len(allocations_df.rows) > 0) =>
        LET rows == allocations_df.rows
            budget == R(config.monthly_budget, 1)
        IN  /\ SumSeq(rows, "allocation_pct") = One
            /\ SumSeq(rows, "allocation_amount") = budget
            /\ Len(rows) = 1 =>
                  /\ rows[1].allocation_pct = One
                  /\ RLe(RAbs(RSub(rows[1].actual_amount, budget)),
                         RMul(R(5, 1000), rows[1].current_price))

\* a result under the adaptive floor: the configured minimum times the number
\* of rows exceeds 100%, and a row was raised to 80% / N before the
\* percentages were normalized
C29_Witness ==
    /\ allocations_df.status = "returned"
    /\ Len(allocations_df.rows) >= 2
    /\ config.minimum_allocation_pct * Len(allocations_df.rows) > 100
    /\ \E k \in 1..Len(allocations_df.rows) :
          RLt(RDiv(allocations_df.rows[k].score, SumSeq(allocations_df.rows, "score")),
              R(80, 100 * Len(allocations_df.rows)))

====
